---------------------------- MODULE Spec2Model ----------------------------
(***************************************************************************)
(* A model of the mayara radar core:                                       *)
(*   - the Furuno ASCII response parser and the live RadarState            *)
(*     (mayara-core/src/protocol/furuno/command.rs, mayara-core/src/state.rs)*)
(*   - the Raymarine UDP controller                                        *)
(*     (mayara-core/src/controllers/raymarine.rs)                          *)
(*   - the discovery locator (mayara-signalk-wasm/src/locator.rs)          *)
(*   - the provider facade (mayara-signalk-wasm/src/radar_provider.rs)     *)
(*                                                                         *)
(* Text is modelled as a sequence of one-character strings, so that the    *)
(* parsers work on characters as the code does.                            *)
(***************************************************************************)
EXTENDS Integers, Sequences, FiniteSets, TLC

VARIABLES
    rs,        \* RadarState: power, range, gain, sea, rain, timestamp
    inbox,     \* the response line handed to update_from_response next, or NoLine
    line,      \* the line of the update_from_response call just made, or NoLine
    ret,       \* the value the latest update_from_response call returned
    nresp,     \* number of update_from_response calls so far
    io,        \* IoProvider: the open UDP sockets and the next handle
    ctl,       \* one RaymarineController
    wire,      \* the frames that left a socket during the latest operation
    last,      \* the latest operation: its name, what it received, its result
    loc,       \* the RadarLocator
    net,       \* the datagrams waiting on each socket of the locator
    lpoll,     \* the latest locator poll: what it drained, knew and returned
    prov,      \* the RadarProvider: its poll count and its controller maps
    pres,      \* the latest provider operation: its inputs and what it did
    tcp,       \* one TCP socket of the IoProvider, its peer and the lines received
    nav,       \* one NavicoReportReceiver, its clock and where run stands
    nlast,     \* the latest step of the receiver: what it logged and sent
    dop,       \* a DopplerState, the pixel counts of a refresh and its transition
    fc,        \* the latest call of a Furuno protocol function: arguments and results
    clock      \* the host's clock: the time now and the time of the latest locator poll

rsVars == <<rs, inbox, line, ret, nresp>>
ctlVars == <<io, ctl, wire, last>>
locVars == <<loc, net, lpoll>>
provVars == <<prov, pres>>
\* the components that the parts above never touch
tcpVars == <<tcp>>
navVars == <<nav, nlast>>
dopVars == <<dop>>
fcVars == <<fc>>
clockVars == <<clock>>
sideVars == <<tcp, nav, nlast, dop, fc, clock>>

vars == <<rs, inbox, line, ret, nresp, io, ctl, wire, last, loc, net, lpoll, prov, pres, tcp, nav, nlast, dop, fc, clock>>

\* The clock part of a behaviour in which no time passes
ClockIdle == clock = [now |-> 0, polled_at |-> 0]

(***************************************************************************)
(* Bounds of the model                                                     *)
(***************************************************************************)
\* Most argument fields of a generated response line.
MaxArgs == 2
\* Most update_from_response calls in one behaviour.
MaxUpdates == 2
\* Most UDP sockets the IoProvider hands out in one behaviour.
MaxHandles == 3
\* Most datagrams waiting on one socket.
MaxQueue == 2
\* Most polls of one controller in one behaviour.
MaxCtlPolls == 4
\* Most datagrams waiting on the locator's sockets together.
MaxInFlight == 2
\* Most polls of the locator in one behaviour.
MaxLocPolls == 2
\* Most polls of the provider in one behaviour.
MaxProvPolls == 2
\* Most polls of a locator that is followed up to its announce.
MaxAnnouncePolls == 20
\* Most bytes a TCP peer sends on one connection.
MaxStream == 4
\* Largest range in meters that is looked up in the range table.
MaxMeters == 90000
\* Most commas appended to a frame.
MaxCommas == 2
\* Latest time on the host's clock.
MaxTime == 2
\* Most ranges a range detection asks the radar for.
MaxDetectRanges == 3
\* Beacons handed to process_discovery in one run
MaxBeacons == 4
\* Most pixels of a target's contour.
MaxPix == 20
\* Polls of a provider that is asked to set extended controls.
MaxExtPolls == 1
\* Latest time, in milliseconds, on the clock of the Navico receiver.
MaxNow == 16000

(***************************************************************************)
(* Characters and numbers                                                  *)
(***************************************************************************)
Digits == <<"0", "1", "2", "3", "4", "5", "6", "7", "8", "9">>
HexUpper == <<"A", "B", "C", "D", "E", "F">>
HexLower == <<"a", "b", "c", "d", "e", "f">>

IsDigit(c) == \E i \in 1..10 : Digits[i] = c
DigitVal(c) == (CHOOSE i \in 1..10 : Digits[i] = c) - 1

IsHexDigit(c) ==
    \/ IsDigit(c)
    \/ \E i \in 1..6 : HexUpper[i] = c \/ HexLower[i] = c
HexVal(c) ==
    IF IsDigit(c) THEN DigitVal(c)
    ELSE 9 + (CHOOSE i \in 1..6 : HexUpper[i] = c \/ HexLower[i] = c)

\* char::is_whitespace over the characters that occur here
IsWhitespace(c) == c \in {" ", "\t", "\r", "\n"}

RECURSIVE TrimStart(_)
TrimStart(s) ==
    IF s # <<>> /\ IsWhitespace(Head(s)) THEN TrimStart(Tail(s)) ELSE s

RECURSIVE TrimEnd(_)
TrimEnd(s) ==
    IF s # <<>> /\ IsWhitespace(s[Len(s)])
    THEN TrimEnd(SubSeq(s, 1, Len(s) - 1))
    ELSE s

\* str::trim
Trim(s) == TrimEnd(TrimStart(s))

\* str::find(c) as a 1-based position, Len(s) + 1 when c does not occur
Find(s, c) ==
    IF \E i \in 1..Len(s) : s[i] = c
    THEN CHOOSE i \in 1..Len(s) : s[i] = c /\ \A j \in 1..(i - 1) : s[j] # c
    ELSE Len(s) + 1

\* str::split(c): the fields between the separators, empty fields kept
RECURSIVE Split(_, _)
Split(s, c) ==
    LET p == Find(s, c)
    IN  IF p > Len(s) THEN <<s>>
        ELSE <<SubSeq(s, 1, p - 1)>> \o Split(SubSeq(s, p + 1, Len(s)), c)

RECURSIVE StripZeros(_)
StripZeros(s) ==
    IF Len(s) > 1 /\ Head(s) = "0" THEN StripZeros(Tail(s)) ELSE s

RECURSIVE DecVal(_)
DecVal(s) ==
    IF s = <<>> THEN 0
    ELSE DecVal(SubSeq(s, 1, Len(s) - 1)) * 10 + DigitVal(s[Len(s)])

RECURSIVE HexNum(_)
HexNum(s) ==
    IF s = <<>> THEN 0
    ELSE HexNum(SubSeq(s, 1, Len(s) - 1)) * 16 + HexVal(s[Len(s)])

None == [some |-> FALSE, val |-> 0]
Some(v) == [some |-> TRUE, val |-> v]

\* str::parse::<i32>: optional sign, at least one digit, only digits, and
\* the value within -2^31 .. 2^31 - 1
ParseI32(s) ==
    LET neg  == s # <<>> /\ Head(s) = "-"
        body == IF s # <<>> /\ Head(s) \in {"+", "-"} THEN Tail(s) ELSE s
        d    == StripZeros(body)
        hi   == DecVal(SubSeq(d, 1, Len(d) - 1))
        lo   == DigitVal(d[Len(d)])
        fits == \/ Len(d) <= 9
                \/ /\ Len(d) = 10
                   /\ \/ hi < 214748364
                      \/ hi = 214748364 /\ lo <= (IF neg THEN 8 ELSE 7)
    IN  IF body = <<>> \/ \E i \in 1..Len(body) : ~IsDigit(body[i]) THEN None
        ELSE IF ~fits THEN None
        ELSE Some(IF neg THEN 0 - hi * 10 - lo ELSE hi * 10 + lo)

\* u8::from_str_radix(s, 16): optional '+', at least one hex digit, only hex
\* digits, and the value within 0 .. 255
ParseHexU8(s) ==
    LET body == IF s # <<>> /\ Head(s) = "+" THEN Tail(s) ELSE s
        d    == StripZeros(body)
    IN  IF body = <<>> \/ \E i \in 1..Len(body) : ~IsHexDigit(body[i]) THEN None
        ELSE IF Len(d) > 2 THEN None
        ELSE Some(HexNum(d))

(***************************************************************************)
(* Furuno protocol: command ids, range table, response parsing             *)
(***************************************************************************)
CommandId_Range == 98
CommandId_Gain == 99
CommandId_Sea == 100
CommandId_Rain == 101
CommandId_Status == 105

\* RANGE_TABLE: (wire index, meters)
RANGE_TABLE ==
    << <<21, 116>>, <<0, 231>>, <<1, 463>>, <<2, 926>>, <<3, 1389>>,
       <<4, 1852>>, <<5, 2778>>, <<6, 3704>>, <<7, 5556>>, <<8, 7408>>,
       <<9, 11112>>, <<10, 14816>>, <<11, 22224>>, <<12, 29632>>,
       <<13, 44448>>, <<14, 59264>>, <<19, 66672>>, <<15, 88896>> >>

IndexToMetersMutant(index) ==
    IF \E i \in 1..Len(RANGE_TABLE) : RANGE_TABLE[i][1] = index
    THEN Some(RANGE_TABLE[CHOOSE i \in 1..Len(RANGE_TABLE) :
                            RANGE_TABLE[i][1] = index][2])
    ELSE Some(1852)

\* range_index_to_meters: the meters of the first entry with that index
range_index_to_meters(index) ==
    IF \E i \in 1..Len(RANGE_TABLE) : RANGE_TABLE[i][1] = index
    THEN Some(RANGE_TABLE[CHOOSE i \in 1..Len(RANGE_TABLE) :
                            /\ RANGE_TABLE[i][1] = index
                            /\ \A j \in 1..(i - 1) : RANGE_TABLE[j][1] # index][2])
    ELSE None

NoResponse == [some |-> FALSE, mode |-> "", cmd_id |-> 0, args |-> <<>>]

\* A mutant of ParseArgs: a field that does not parse counts as 0
RECURSIVE ParseArgsMutant(_)
ParseArgsMutant(fields) ==
    IF fields = <<>> THEN <<>>
    ELSE LET v == ParseI32(Trim(Head(fields)))
         IN  <<IF v.some THEN v.val ELSE 0>> \o ParseArgsMutant(Tail(fields))

\* The integer arguments of the fields, in order; a field that does not
\* parse as i32 is skipped (command.rs:485-489)
RECURSIVE ParseArgs(_)
ParseArgs(fields) ==
    IF fields = <<>> THEN <<>>
    ELSE LET v == ParseI32(Trim(Head(fields)))
         IN  (IF v.some THEN <<v.val>> ELSE <<>>) \o ParseArgs(Tail(fields))

\* parse_response
parse_response(l) ==
    LET t         == Trim(l)
        rest      == SubSeq(t, 3, Len(t))
        comma_pos == Find(rest, ",") - 1
        cmd_id    == ParseHexU8(SubSeq(rest, 1, comma_pos))
        args      == IF comma_pos < Len(rest)
                     THEN ParseArgs(Split(SubSeq(rest, comma_pos + 2, Len(rest)), ","))
                     ELSE <<>>
    IN  IF t = <<>> \/ Head(t) # "$" \/ Len(t) < 3 THEN NoResponse
        ELSE IF t[2] \notin {"S", "R", "N"} THEN NoResponse
        ELSE IF ~cmd_id.some THEN NoResponse
        ELSE [some |-> TRUE,
              mode |-> CASE t[2] = "S" -> "Set" [] t[2] = "R" -> "Request"
                         [] t[2] = "N" -> "New",
              cmd_id |-> cmd_id.val,
              args |-> args]

\* parse_status_response
parse_status_response(l) ==
    LET r == parse_response(l)
    IN  IF ~r.some THEN None
        ELSE IF r.mode # "New" \/ r.cmd_id # CommandId_Status THEN None
        ELSE IF r.args = <<>> THEN None
        ELSE Some(r.args[1] = 2)

\* One of parse_gain_response, parse_sea_response, parse_rain_response,
\* which differ in the command id only
ParseControlResponse(l, id) ==
    LET r == parse_response(l)
    IN  IF ~r.some THEN None
        ELSE IF r.mode # "New" \/ r.cmd_id # id THEN None
        ELSE IF Len(r.args) >= 2
             THEN Some([auto |-> r.args[1] = 1, value |-> r.args[2]])
             ELSE None

parse_gain_response(l) == ParseControlResponse(l, CommandId_Gain)
parse_sea_response(l) == ParseControlResponse(l, CommandId_Sea)
parse_rain_response(l) == ParseControlResponse(l, CommandId_Rain)

\* parse_range_response
parse_range_response(l) ==
    LET r == parse_response(l)
    IN  IF ~r.some THEN None
        ELSE IF r.mode # "New" \/ r.cmd_id # CommandId_Range THEN None
        ELSE IF r.args = <<>> THEN None
        ELSE Some(r.args[1])

(***************************************************************************)
(* RadarState                                                              *)
(***************************************************************************)
\* ControlValueState::default
ControlValueStateDefault == [mode |-> "auto", value |-> 50]

\* From<ParsedControlValue> for ControlValueState
ControlValueStateFrom(cv) ==
    [mode |-> IF cv.auto THEN "auto" ELSE "manual", value |-> cv.value]

\* RadarState::default
RadarStateDefault ==
    [power |-> "Off", range |-> 0,
     gain |-> ControlValueStateDefault,
     sea |-> ControlValueStateDefault,
     rain |-> ControlValueStateDefault,
     timestamp |-> "None"]

\* RadarState::update_from_response: the state after the call and the
\* value returned
update_from_response(s, l) ==
    LET st == parse_status_response(l)
        g  == parse_gain_response(l)
        se == parse_sea_response(l)
        ra == parse_rain_response(l)
        ri == parse_range_response(l)
        m  == range_index_to_meters(ri.val)
    IN  IF st.some
        THEN [state |-> [s EXCEPT !.power = IF st.val THEN "Transmit" ELSE "Standby"],
              ret |-> TRUE]
        ELSE IF g.some
        THEN [state |-> [s EXCEPT !.gain = ControlValueStateFrom(g.val)], ret |-> TRUE]
        ELSE IF se.some
        THEN [state |-> [s EXCEPT !.sea = ControlValueStateFrom(se.val)], ret |-> TRUE]
        ELSE IF ra.some
        THEN [state |-> [s EXCEPT !.rain = ControlValueStateFrom(ra.val)], ret |-> TRUE]
        ELSE IF ri.some /\ m.some
        THEN [state |-> [s EXCEPT !.range = m.val], ret |-> TRUE]
        ELSE [state |-> s, ret |-> FALSE]

(***************************************************************************)
(* Response lines the radar side may deliver                               *)
(***************************************************************************)
NoLine == <<"(none)">>

\* What precedes the first comma: the heads of the five responses, and
\* heads with a wrong mode, an unknown command id, a mode letter that is none
Heads ==
    { <<"$", "N", "6", "9">>, <<"$", "N", "6", "3">>, <<"$", "N", "6", "4">>,
      <<"$", "N", "6", "5">>, <<"$", "N", "6", "2">>,
      <<"$", "S", "6", "3">>, <<"$", "N", "6", "6">>, <<"$", "X", "6", "9">> }

\* Argument fields: integers, a non-numeric field, an empty field
Fields == { <<"1">>, <<"2">>, <<"1", "0", "1">>, <<"x">>, <<>> }

RECURSIVE FieldLists(_)
FieldLists(n) ==
    IF n = 0 THEN { <<>> }
    ELSE FieldLists(n - 1) \cup
         { <<f>> \o fl : f \in Fields, fl \in { x \in FieldLists(n - 1) : Len(x) = n - 1 } }

RECURSIVE JoinArgs(_)
JoinArgs(fl) == IF fl = <<>> THEN <<>> ELSE <<",">> \o Head(fl) \o JoinArgs(Tail(fl))

\* Lines with a terminator, a trailing comma, a negative
\* argument, no '$', an id that is no hex number, a request, a short line
OtherLines ==
    { <<"$", "N", "6", "2", ",", "1", ",", "0", ",", "0", "\r", "\n">>,
      <<"$", "N", "6", "3", ",", "0", ",", "2", "\n">>,
      <<"$", "N", "6", "4", ",", "1", ",", "2", ",">>,
      <<"$", "N", "6", "5", ",", "0", ",", "-", "7">>,
      <<"N", "6", "2", ",", "1">>,
      <<"$", "N", "6", "G", ",", "1">>,
      <<"$", "R", "6", "2", ",", "1">>,
      <<"$", "N">>,
      <<>> }

Lines == { h \o JoinArgs(fl) : h \in Heads, fl \in FieldLists(MaxArgs) } \cup OtherLines

(***************************************************************************)
(* State machine of one RadarState fed with response lines                 *)
(***************************************************************************)
RsInit ==
    /\ rs = RadarStateDefault
    /\ inbox = NoLine
    /\ line = NoLine
    /\ ret = FALSE
    /\ nresp = 0

\* A response line arrives on the command connection
Receive ==
    /\ inbox = NoLine
    /\ nresp < MaxUpdates
    /\ \E l \in Lines : inbox' = l
    /\ line' = NoLine
    /\ UNCHANGED <<rs, ret, nresp>>

\* The controller hands the line to RadarState::update_from_response
Update ==
    /\ inbox # NoLine
    /\ LET r == update_from_response(rs, inbox)
       IN  /\ rs' = r.state
           /\ ret' = r.ret
    /\ line' = inbox
    /\ inbox' = NoLine
    /\ nresp' = nresp + 1

NextState ==
    \/ (Receive /\ UNCHANGED <<sideVars, ctlVars, locVars, provVars>>)
    \/ (Update /\ UNCHANGED <<sideVars, ctlVars, locVars, provVars>>)

(***************************************************************************)
(* IoProvider: UDP sockets behind opaque handles                           *)
(***************************************************************************)
NoSocket == 0

IoInit == [next |-> 1, socks |-> <<>>]

NewSock == [port |-> -1, joined |-> FALSE, rxq |-> <<>>]

\* udp_create succeeding: the handle handed out is io.next
IoCreate(i) == [next |-> i.next + 1, socks |-> i.socks @@ (i.next :> NewSock)]
\* udp_bind succeeding
IoBind(i, h, port) == [i EXCEPT !.socks[h].port = port]
\* udp_join_multicast succeeding
IoJoin(i, h) == [i EXCEPT !.socks[h].joined = TRUE]
\* udp_close
IoClose(i, h) == [i EXCEPT !.socks = [x \in (DOMAIN i.socks) \ {h} |-> i.socks[x]]]
\* TokioIoProvider::udp_recv_from: None for a handle that is not open and
\* when no datagram waits; otherwise the oldest datagram leaves the queue
udp_recv_from(i, h) ==
    IF h \notin DOMAIN i.socks THEN [ret |-> None, io |-> i]
    ELSE IF i.socks[h].rxq = <<>> THEN [ret |-> None, io |-> i]
    ELSE [ret |-> Some(Head(i.socks[h].rxq)),
          io |-> [i EXCEPT !.socks[h].rxq = Tail(@)]]

IsOpen(i, h) == h \in DOMAIN i.socks

(***************************************************************************)
(* RaymarineController                                                      *)
(***************************************************************************)
Variants == {"Quantum", "RD"}

\* RaymarineController::new
RaymarineController_new(radar_id, command_addr, command_port, report_addr, report_port, variant, has_doppler) ==
    [radar_id |-> radar_id, command_addr |-> command_addr,
     command_port |-> command_port, report_addr |-> report_addr,
     report_port |-> report_port, command_socket |-> NoSocket,
     report_socket |-> NoSocket, state |-> "Disconnected", variant |-> variant,
     poll_count |-> 0, has_doppler |-> has_doppler]

\* What the IoProvider answers to the calls of start_sockets
SocketOutcomes ==
    [cmd_create : BOOLEAN, cmd_bind : BOOLEAN,
     rep_create : BOOLEAN, rep_bind : BOOLEAN, rep_join : BOOLEAN]

StartSocketsMutant(c, i, o) ==
    LET i1 == IF o.cmd_create THEN IoBind(IoCreate(i), i.next, 0) ELSE i
        c1 == IF o.cmd_create THEN [c EXCEPT !.command_socket = i.next] ELSE c
    IN  [ctl |-> [c1 EXCEPT !.state = "Listening"], io |-> i1]

\* RaymarineController::start_sockets
start_sockets(c, i, o) ==
    LET hc == i.next
        i1 == IF ~o.cmd_create THEN i
              ELSE IF o.cmd_bind THEN IoBind(IoCreate(i), hc, 0)
              ELSE IoClose(IoCreate(i), hc)
        c1 == IF o.cmd_create /\ o.cmd_bind THEN [c EXCEPT !.command_socket = hc] ELSE c
        hr == i1.next
        i2 == IF ~o.rep_create THEN i1
              ELSE IF ~o.rep_bind THEN IoClose(IoCreate(i1), hr)
              ELSE IF ~o.rep_join THEN IoClose(IoBind(IoCreate(i1), hr, c.report_port), hr)
              ELSE IoJoin(IoBind(IoCreate(i1), hr, c.report_port), hr)
        c2 == IF o.rep_create /\ o.rep_bind /\ o.rep_join
              THEN [c1 EXCEPT !.report_socket = hr, !.state = "Listening"]
              ELSE c1
    IN  [ctl |-> c2, io |-> i2]

RECURSIVE ReportLoop(_, _, _, _)
\* The while loop of poll_connected: each datagram received is handled
\* (process_report only logs it) and moves Listening to Connected; the loop
\* ends at the first None
ReportLoop(c, i, handled, activity) ==
    LET r == udp_recv_from(i, c.report_socket)
    IN  IF ~r.ret.some
        THEN [ctl |-> c, io |-> i, handled |-> handled, activity |-> activity]
        ELSE ReportLoop(IF c.state = "Listening"
                        THEN [c EXCEPT !.state = "Connected"] ELSE c,
                        r.io, Append(handled, r.ret.val), TRUE)

PollConnectedMutant(c, i) ==
    LET r == IF c.report_socket = NoSocket THEN [ret |-> None, io |-> i]
             ELSE udp_recv_from(i, c.report_socket)
    IN  [ctl |-> IF r.ret.some /\ c.state = "Listening"
                 THEN [c EXCEPT !.state = "Connected"] ELSE c,
         io |-> r.io,
         received |-> IF r.ret.some THEN 1 ELSE 0,
         handled |-> IF r.ret.some THEN <<r.ret.val>> ELSE <<>>,
         activity |-> r.ret.some]

\* RaymarineController::poll_connected: the datagrams handled, in the order
\* of handling, and the value returned
poll_connected(c, i) ==
    IF c.report_socket = NoSocket
    THEN [ctl |-> c, io |-> i, received |-> 0, handled |-> <<>>, activity |-> FALSE]
    ELSE LET r == ReportLoop(c, i, <<>>, FALSE)
         IN  [ctl |-> r.ctl, io |-> r.io, received |-> Len(r.handled),
              handled |-> r.handled, activity |-> r.activity]

\* RaymarineController::poll: the controller, the IoProvider, the number of
\* datagrams received and the value returned
RaymarinePoll(c, i, o) ==
    LET c0 == [c EXCEPT !.poll_count = @ + 1]
    IN  IF c0.state = "Disconnected"
        THEN LET r == start_sockets(c0, i, o)
             IN  [ctl |-> r.ctl, io |-> r.io, received |-> 0, handled |-> <<>>,
                  activity |-> TRUE]
        ELSE poll_connected(c0, i)

\* RaymarineController::shutdown
RaymarineShutdown(c, i) ==
    LET i1 == IF c.command_socket # NoSocket THEN IoClose(i, c.command_socket) ELSE i
        i2 == IF c.report_socket # NoSocket THEN IoClose(i1, c.report_socket) ELSE i1
    IN  [ctl |-> [c EXCEPT !.command_socket = NoSocket, !.report_socket = NoSocket,
                           !.state = "Disconnected"],
         io |-> i2]

\* u16::to_le_bytes
LeBytes(opcode) == <<opcode % 256, opcode \div 256>>

\* quantum_command and rd_command
quantum_command(opcode, data) == LeBytes(opcode) \o <<40, 0>> \o data
rd_command(opcode, data) == LeBytes(opcode) \o <<1, 0>> \o data

Bit(b) == IF b THEN 1 ELSE 0

\* send_command: the frame leaves the socket when there is a command socket
\* and udp_send_to succeeds; a failure is only logged
send_command(c, frame, ok) ==
    IF c.command_socket # NoSocket /\ ok THEN <<frame>> ELSE <<>>

\* The frames the control setters build, in the order they are sent
SetPowerFrames(c, transmit) ==
    IF c.variant = "Quantum"
    THEN << quantum_command(256, <<Bit(transmit), 0, 0, 0>>) >>
    ELSE << rd_command(33025, <<1, 0, 0, 0, Bit(transmit), 0, 0, 0>>) >>

SetRangeFrames(c, range_index) ==
    IF c.variant = "Quantum"
    THEN << quantum_command(257, <<0, range_index, 0, 0>>) >>
    ELSE << rd_command(33025, <<1, 0, 0, 0, range_index, 0, 0, 0>>) >>

SetGainFrames(c, value, auto) ==
    IF c.variant = "Quantum"
    THEN << quantum_command(262, <<Bit(auto), value, 0, 0>>) >>
    ELSE << rd_command(33537, <<1, 0, 0, 0, 0, 0, 0, 0, 1, 0, 0, 0, 0, 0, 0, 0,
                                 Bit(auto), 0, 0, 0>>) >>
         \o (IF ~auto
             THEN << rd_command(33537, <<1, 0, 0, 0, 0, 0, 0, 0, 1, 0, 0, 0, 0, 0, 0, 0,
                                         value, 0, 0, 0>>) >>
             ELSE <<>>)

SetSeaFrames(c, value, auto) ==
    IF c.variant = "Quantum"
    THEN << quantum_command(263, <<Bit(auto), value, 0, 0>>) >>
    ELSE << rd_command(33793, <<1, 0, 0, 0, 0, 0, 0, 0,
                                 Bit(auto), 0, 0, 0, value, 0, 0, 0>>) >>

SetRainFrames(c, value, enabled) ==
    IF c.variant = "Quantum"
    THEN << quantum_command(264, <<Bit(enabled), value, 0, 0>>) >>
    ELSE << rd_command(34049, <<1, 0, 0, 0, 0, 0, 0, 0,
                                 Bit(enabled), 0, 0, 0, value, 0, 0, 0>>) >>

SetInterferenceRejectionFrames(c, level) ==
    IF c.variant = "Quantum"
    THEN << quantum_command(265, <<level, 0, 0, 0>>) >>
    ELSE << rd_command(35329, <<1, 0, 0, 0, level, 0, 0, 0>>) >>

SetTargetExpansionFrames(c, level) ==
    IF c.variant = "Quantum"
    THEN << quantum_command(266, <<level, 0, 0, 0>>) >>
    ELSE << rd_command(35073, <<1, 0, 0, 0, level, 0, 0, 0>>) >>

\* (degrees * 10.0) as i16: the cast saturates; to_le_bytes is two's complement
I16Wire(tenths) ==
    LET sat == IF tenths > 32767 THEN 32767 ELSE IF tenths < -32768 THEN -32768 ELSE tenths
    IN  LeBytes(sat % 65536)

SetBearingAlignmentFrames(c, degrees) ==
    LET bytes == I16Wire(degrees * 10)
    IN  IF c.variant = "Quantum"
        THEN << quantum_command(267, <<bytes[1], bytes[2], 0, 0>>) >>
        ELSE << rd_command(35585, <<1, 0, 0, 0, bytes[1], bytes[2], 0, 0>>) >>

SetFtcFrames(c, value, enabled) ==
    IF c.variant = "RD"
    THEN << rd_command(34305, <<1, 0, 0, 0, 0, 0, 0, 0,
                                 Bit(enabled), 0, 0, 0, value, 0, 0, 0>>) >>
    ELSE <<>>

SetTuneFrames(c, value, auto) ==
    IF c.variant = "RD"
    THEN << rd_command(34561, <<1, 0, 0, 0, 0, 0, 0, 0,
                                 Bit(auto), 0, 0, 0, value, 0, 0, 0>>) >>
    ELSE <<>>

SetModeFrames(c, mode) ==
    IF c.variant = "Quantum"
    THEN << quantum_command(268, <<mode, 0, 0, 0>>) >>
    ELSE <<>>

SetColorGainFrames(c, value, auto) ==
    IF c.variant = "Quantum"
    THEN << quantum_command(269, <<Bit(auto), value, 0, 0>>) >>
    ELSE <<>>

\* A control request to the controller: the setter and its arguments
SetterValues == {50}
RangeIndexes == {0, 7}
Degrees == {-1}
FlagSetters == {"set_gain", "set_sea", "set_rain", "set_ftc", "set_tune", "set_color_gain"}
LevelSetters == {"set_interference_rejection", "set_target_expansion", "set_mode"}
Setters ==
    {"set_power", "set_range", "set_bearing_alignment"} \cup FlagSetters \cup LevelSetters
Requests ==
    [name : {"set_power"}, flag : BOOLEAN, value : {0}]
    \cup [name : {"set_range"}, flag : {FALSE}, value : RangeIndexes]
    \cup [name : FlagSetters, flag : BOOLEAN, value : SetterValues]
    \cup [name : LevelSetters, flag : {FALSE}, value : {1}]
    \cup [name : {"set_bearing_alignment"}, flag : {FALSE}, value : Degrees]

SetterFrames(c, rq) ==
    CASE rq.name = "set_power" -> SetPowerFrames(c, rq.flag)
      [] rq.name = "set_range" -> SetRangeFrames(c, rq.value)
      [] rq.name = "set_gain" -> SetGainFrames(c, rq.value, rq.flag)
      [] rq.name = "set_sea" -> SetSeaFrames(c, rq.value, rq.flag)
      [] rq.name = "set_rain" -> SetRainFrames(c, rq.value, rq.flag)
      [] rq.name = "set_interference_rejection" -> SetInterferenceRejectionFrames(c, rq.value)
      [] rq.name = "set_target_expansion" -> SetTargetExpansionFrames(c, rq.value)
      [] rq.name = "set_bearing_alignment" -> SetBearingAlignmentFrames(c, rq.value)
      [] rq.name = "set_ftc" -> SetFtcFrames(c, rq.value, rq.flag)
      [] rq.name = "set_tune" -> SetTuneFrames(c, rq.value, rq.flag)
      [] rq.name = "set_mode" -> SetModeFrames(c, rq.value)
      [] rq.name = "set_color_gain" -> SetColorGainFrames(c, rq.value, rq.flag)

\* A setter of the controller: every frame is handed to send_command; oks
\* holds the answers of udp_send_to. The controller itself is not changed.
RECURSIVE SendAll(_, _, _)
SendAll(c, frames, oks) ==
    IF frames = <<>> THEN <<>>
    ELSE send_command(c, Head(frames), Head(oks)) \o SendAll(c, Tail(frames), Tail(oks))

RaymarineSet(c, rq, oks) == [ctl |-> c, wire |-> SendAll(c, SetterFrames(c, rq), oks)]

(***************************************************************************)
(* State machine of one Raymarine controller                               *)
(***************************************************************************)
NoOp == [op |-> "new", received |-> 0, handled |-> <<>>, result |-> FALSE]

ReportPorts == {2574}

CtlInit ==
    /\ io = IoInit
    /\ \E p \in ReportPorts, v \in Variants :
          ctl = RaymarineController_new(<<"R">>, <<"4">>, p + 1, <<"4">>, p, v,
                                        v = "Quantum")
    /\ wire = <<>>
    /\ last = NoOp

\* The controller part of a behaviour that involves no controller
CtlIdle ==
    /\ io = IoInit
    /\ ctl = RaymarineController_new(<<>>, <<>>, 0, <<>>, 0, "Quantum", FALSE)
    /\ wire = <<>>
    /\ last = NoOp

\* A create can only succeed while handles are left
Feasible(i, o) == i.next + Bit(o.cmd_create) + Bit(o.rep_create) <= MaxHandles + 1

CtlPoll ==
    /\ ctl.poll_count < MaxCtlPolls
    /\ \E o \in SocketOutcomes :
          /\ Feasible(io, o)
          /\ ctl.state # "Disconnected" => o = [cmd_create |-> FALSE, cmd_bind |-> FALSE,
                                                rep_create |-> FALSE, rep_bind |-> FALSE,
                                                rep_join |-> FALSE]
          /\ LET r == RaymarinePoll(ctl, io, o)
             IN  /\ ctl' = r.ctl
                 /\ io' = r.io
                 /\ last' = [op |-> "poll", received |-> r.received,
                             handled |-> r.handled, result |-> r.activity]
    /\ wire' = <<>>

CtlSet ==
    /\ \E rq \in Requests, oks \in [1..2 -> BOOLEAN] :
          LET r == RaymarineSet(ctl, rq, oks)
          IN  /\ \A k \in 1..2 : k > Len(SetterFrames(ctl, rq)) => oks[k]
              /\ ctl' = r.ctl
              /\ wire' = r.wire
              /\ last' = [NoOp EXCEPT !.op = rq.name]
    /\ UNCHANGED io

CtlShutdown ==
    /\ LET r == RaymarineShutdown(ctl, io)
       IN  /\ ctl' = r.ctl
           /\ io' = r.io
    /\ wire' = <<>>
    /\ last' = [NoOp EXCEPT !.op = "shutdown"]

\* The radar sends a report datagram to the report group
ReportArrives ==
    /\ \E h \in DOMAIN io.socks, len \in {2, 8} :
          /\ io.socks[h].joined
          /\ Len(io.socks[h].rxq) < MaxQueue
          /\ io' = [io EXCEPT !.socks[h].rxq = Append(@, len)]
    /\ UNCHANGED <<ctl, wire, last>>

NextCtl ==
    \/ (CtlPoll /\ UNCHANGED <<sideVars, rsVars, locVars, provVars>>)
    \/ (CtlSet /\ UNCHANGED <<sideVars, rsVars, locVars, provVars>>)
    \/ (CtlShutdown /\ UNCHANGED <<sideVars, rsVars, locVars, provVars>>)
    \/ (ReportArrives /\ UNCHANGED <<sideVars, rsVars, locVars, provVars>>)

(***************************************************************************)
(* Strings as sequences of characters                                      *)
(***************************************************************************)
Ascii ==
    <<" ", "-", ".", "0", "1", "2", "3", "4", "5", "6", "7", "8", "9", ":",
      "A", "B", "C", "D", "E", "F", "G", "H", "I", "J", "K", "L", "M", "N", "O",
      "P", "Q", "R", "S", "T", "U", "V", "W", "X", "Y", "Z", "_",
      "a", "b", "c", "d", "e", "f", "g", "h", "i", "j", "k", "l", "m", "n", "o",
      "p", "q", "r", "s", "t", "u", "v", "w", "x", "y", "z">>

CharCode(c) == CHOOSE k \in 1..Len(Ascii) : Ascii[k] = c

\* The order of String keys in a BTreeMap
RECURSIVE StrLess(_, _)
StrLess(a, b) ==
    IF b = <<>> THEN FALSE
    ELSE IF a = <<>> THEN TRUE
    ELSE IF Head(a) = Head(b) THEN StrLess(Tail(a), Tail(b))
    ELSE CharCode(Head(a)) < CharCode(Head(b))

\* The first key of a non-empty set of keys
FirstKey(keys) == CHOOSE k \in keys : \A other \in keys \ {k} : StrLess(k, other)

\* The keys in iteration order
RECURSIVE KeysInOrder(_)
KeysInOrder(keys) ==
    IF keys = {} THEN <<>>
    ELSE <<FirstKey(keys)>> \o KeysInOrder(keys \ {FirstKey(keys)})

NoStr == [some |-> FALSE, val |-> <<>>]

\* address.split(':').next(): the IP part of an address
IpOf(address) == Split(address, ":")[1]

(***************************************************************************)
(* RadarLocator                                                             *)
(***************************************************************************)
Brands == {"Furuno", "Navico", "Raymarine", "Garmin"}

\* Display of Brand
BrandStr(brand) ==
    CASE brand = "Furuno" -> <<"F", "u", "r", "u", "n", "o">>
      [] brand = "Navico" -> <<"N", "a", "v", "i", "c", "o">>
      [] brand = "Raymarine" -> <<"R", "a", "y", "m", "a", "r", "i", "n", "e">>
      [] brand = "Garmin" -> <<"G", "a", "r", "m", "i", "n">>

LocSockets == {"furuno", "navico_br24", "navico_gen3", "raymarine", "garmin"}

\* RadarLocator::new
RadarLocator_new ==
    [sockets |-> [k \in LocSockets |-> FALSE], radars |-> <<>>,
     current_time_ms |-> 0, poll_count |-> 0]

FURUNO_BEACON_BROADCAST ==
    <<"1", "7", "2", ".", "3", "1", ".", "2", "5", "5", ".", "2", "5", "5">>

ANNOUNCE_INTERVAL == 20

\* furuno::BEACON_PORT, the port the Furuno socket is bound to
FURUNO_BEACON_PORT == 10010

\* A packet that left the Furuno socket of the locator
AnnouncePacket(packet) ==
    [packet |-> packet, socket |-> "furuno", addr |-> FURUNO_BEACON_BROADCAST,
     port |-> FURUNO_BEACON_PORT]

AnnounceMutant(l, oks) ==
    IF l.sockets["furuno"]
    THEN IF ~oks[1] THEN <<>>
         ELSE IF ~oks[2] THEN << AnnouncePacket("REQUEST_BEACON_PACKET") >>
         ELSE << AnnouncePacket("REQUEST_BEACON_PACKET"),
                 AnnouncePacket("REQUEST_MODEL_PACKET") >>
              \o (IF oks[3] THEN << AnnouncePacket("ANNOUNCE_PACKET") >> ELSE <<>>)
    ELSE <<>>

\* send_furuno_announce: the packets that left the Furuno socket; a failed
\* send is logged and the next packet is still sent
send_furuno_announce(l, oks) ==
    IF l.sockets["furuno"]
    THEN LET pk == <<"REQUEST_BEACON_PACKET", "REQUEST_MODEL_PACKET", "ANNOUNCE_PACKET">>
             Left(k) == IF oks[k] THEN << AnnouncePacket(pk[k]) >> ELSE <<>>
         IN  Left(1) \o Left(2) \o Left(3)
    ELSE <<>>

\* RadarLocator::start: up[k] tells whether socket k could be created, bound
\* and joined
locator_start(l, up, oks) ==
    LET l1 == [l EXCEPT !.sockets = up]
    IN  [loc |-> l1, sent |-> send_furuno_announce(l1, oks)]

\* make_radar_id
make_radar_id(d) == BrandStr(d.brand) \o <<"-">> \o d.name

AddRadarMutant(l, d) ==
    [loc |-> [l EXCEPT !.radars =
                 (make_radar_id(d) :> [discovery |-> d, last_seen_ms |-> l.current_time_ms]) @@ @],
     new |-> TRUE]

\* add_radar
add_radar(l, d) ==
    LET id == make_radar_id(d)
    IN  IF id \in DOMAIN l.radars
        THEN [loc |-> [l EXCEPT !.radars[id].last_seen_ms = l.current_time_ms],
              new |-> FALSE]
        ELSE [loc |-> [l EXCEPT !.radars =
                          (id :> [discovery |-> d, last_seen_ms |-> l.current_time_ms]) @@ @],
              new |-> TRUE]

\* update_radar_model_info: the first radar in key order with the source IP
update_radar_model_info(l, source_addr, model, serial) ==
    LET source_ip == IpOf(source_addr)
        hits == {id \in DOMAIN l.radars :
                    IpOf(l.radars[id].discovery.address) = source_ip}
    IN  IF hits = {} THEN l
        ELSE LET id == FirstKey(hits)
             IN  [l EXCEPT
                    !.radars[id].discovery.model = IF model.some THEN model ELSE @,
                    !.radars[id].discovery.serial_number = IF serial.some THEN serial ELSE @]

\* poll_socket_furuno: beacons become discoveries, model reports that carry
\* a model or a serial are collected
RECURSIVE FurunoDiscoveries(_)
FurunoDiscoveries(q) ==
    IF q = <<>> THEN <<>>
    ELSE (IF Head(q).kind = "beacon" THEN <<Head(q).discovery>> ELSE <<>>)
         \o FurunoDiscoveries(Tail(q))

RECURSIVE FurunoModelReports(_)
FurunoModelReports(q) ==
    IF q = <<>> THEN <<>>
    ELSE (IF Head(q).kind = "model" /\ (Head(q).model.some \/ Head(q).serial.some)
          THEN <<Head(q)>> ELSE <<>>)
         \o FurunoModelReports(Tail(q))

\* poll_socket: what the parser accepts becomes a discovery
poll_socket(l, n, k) ==
    IF l.sockets[k] THEN FurunoDiscoveries(n[k]) ELSE <<>>

RECURSIVE ApplyModelReports(_, _)
ApplyModelReports(l, reports) ==
    IF reports = <<>> THEN l
    ELSE ApplyModelReports(
             update_radar_model_info(l, Head(reports).addr, Head(reports).model,
                                     Head(reports).serial),
             Tail(reports))

RECURSIVE AddAll(_, _)
AddAll(l, discoveries) ==
    IF discoveries = <<>> THEN [loc |-> l, new |-> <<>>]
    ELSE LET a == add_radar(l, Head(discoveries))
             r == AddAll(a.loc, Tail(discoveries))
         IN  [loc |-> r.loc,
              new |-> (IF a.new THEN <<Head(discoveries)>> ELSE <<>>) \o r.new]

\* RadarLocator::poll: the model reports of the Furuno socket are applied
\* before the discoveries of this poll are added
locator_poll(l, n, oks) ==
    LET l0 == [l EXCEPT !.poll_count = @ + 1]
        sent == IF l0.poll_count % ANNOUNCE_INTERVAL = 0
                THEN send_furuno_announce(l0, oks) ELSE <<>>
        fq == IF l0.sockets["furuno"] THEN n["furuno"] ELSE <<>>
        l1 == ApplyModelReports(l0, FurunoModelReports(fq))
        discoveries ==
            FurunoDiscoveries(fq) \o poll_socket(l0, n, "navico_br24")
            \o poll_socket(l0, n, "navico_gen3") \o poll_socket(l0, n, "raymarine")
            \o poll_socket(l0, n, "garmin")
        r == AddAll(l1, discoveries)
    IN  [loc |-> r.loc,
         net |-> [k \in LocSockets |-> IF l0.sockets[k] THEN <<>> ELSE n[k]],
         new |-> r.new,
         sent |-> sent]

\* RadarLocator::shutdown
locator_shutdown(l) == [l EXCEPT !.sockets = [k \in LocSockets |-> FALSE]]

(***************************************************************************)
(* The radars on the network and their datagrams                           *)
(***************************************************************************)
Discovery(brand, name, address, model, command_port, data_port) ==
    [brand |-> brand, name |-> name, address |-> address, model |-> model,
     serial_number |-> NoStr, command_port |-> command_port,
     data_port |-> data_port]

Beacon(d) == [kind |-> "beacon", discovery |-> d]
ModelReport(addr, model, serial) ==
    [kind |-> "model", addr |-> addr, model |-> model, serial |-> serial]
OtherDatagram == [kind |-> "other"]

FurunoA == Discovery("Furuno", <<"D", "R", "S">>, <<"1", ":", "5">>, NoStr, 0, 0)
FurunoB == Discovery("Furuno", <<"F", "A", "R">>, <<"2">>, NoStr, 0, 0)
NavicoA == Discovery("Navico", <<"H", "A", "L", "O">>, <<"3">>, NoStr, 6680, 0)
RaymarineA ==
    Discovery("Raymarine", <<"Q", " ", "2", "4">>, <<"4">>,
              Some(<<"Q", "u", "a", "n", "t", "u", "m">>), 2575, 2574)
GarminA == Discovery("Garmin", <<"G", "M", "R">>, <<"5">>, NoStr, 0, 0)

ModelA == ModelReport(<<"1">>, Some(<<"D", "R", "S", "4", "D">>), Some(<<"7">>))
ModelB == ModelReport(<<"2">>, Some(<<"F", "A", "R", "2", "1">>), NoStr)

\* What can arrive on each socket of the locator
Datagrams(k) ==
    CASE k = "furuno" -> {Beacon(FurunoA), Beacon(FurunoB), ModelA, ModelB}
      [] k = "navico_br24" -> {Beacon(NavicoA)}
      [] k = "navico_gen3" -> {Beacon(NavicoA)}
      [] k = "raymarine" -> {Beacon(RaymarineA)}
      [] k = "garmin" -> {Beacon(GarminA)}

AllUp == [k \in LocSockets |-> TRUE]
StartOutcomes == {AllUp, [AllUp EXCEPT !["furuno"] = FALSE]}

InFlight(n) ==
    Len(n["furuno"]) + Len(n["navico_br24"]) + Len(n["navico_gen3"])
    + Len(n["raymarine"]) + Len(n["garmin"])

(***************************************************************************)
(* State machine of the locator                                            *)
(***************************************************************************)
NoNet == [k \in LocSockets |-> <<>>]
NoPoll == [polled |-> FALSE, drained |-> NoNet, known |-> <<>>, new |-> <<>>,
           returned |-> <<>>, oks |-> [k \in 1..3 |-> TRUE]]

\* The identities returned as new so far, in the order they were returned
Forget(lp) == [NoPoll EXCEPT !.returned = lp.returned]

LocInit ==
    /\ loc = RadarLocator_new
    /\ net = NoNet
    /\ lpoll = NoPoll

LocStart ==
    /\ \A k \in LocSockets : ~loc.sockets[k]
    /\ \E up \in StartOutcomes, oks \in [1..3 -> BOOLEAN] :
          LET r == locator_start(loc, up, oks)
          IN  /\ loc' = r.loc
              /\ wire' = r.sent
    /\ lpoll' = Forget(lpoll)
    /\ UNCHANGED net

LocArrive ==
    /\ InFlight(net) < MaxInFlight
    /\ \E k \in LocSockets :
          /\ loc.sockets[k]
          /\ \E d \in Datagrams(k) : net' = [net EXCEPT ![k] = Append(@, d)]
    /\ lpoll' = Forget(lpoll)
    /\ wire' = <<>>
    /\ UNCHANGED loc

\* One call of RadarLocator::poll
PollLocator ==
    /\ \E oks \in IF (loc.poll_count + 1) % ANNOUNCE_INTERVAL = 0
                    THEN [1..3 -> BOOLEAN] ELSE {[k \in 1..3 |-> TRUE]} :
          LET r == locator_poll(loc, net, oks)
          IN  /\ loc' = r.loc
              /\ net' = r.net
              /\ wire' = r.sent
              /\ lpoll' = [polled |-> TRUE,
                           drained |-> [k \in LocSockets |->
                                           IF loc.sockets[k] THEN net[k] ELSE <<>>],
                           known |-> loc.radars,
                           new |-> r.new,
                           returned |-> lpoll.returned
                                        \o [i \in 1..Len(r.new) |->
                                               <<r.new[i].brand, r.new[i].name>>],
                           oks |-> oks]

LocPoll ==
    /\ loc.poll_count < MaxLocPolls
    /\ PollLocator

\* The polls of a locator up to the one that announces
AnnPoll ==
    /\ loc.poll_count < MaxAnnouncePolls
    /\ PollLocator

LocShutdown ==
    /\ \E k \in LocSockets : loc.sockets[k]
    /\ loc' = locator_shutdown(loc)
    /\ net' = NoNet
    /\ lpoll' = Forget(lpoll)
    /\ wire' = <<>>

NextLoc ==
    \/ (LocStart /\ UNCHANGED <<sideVars, rsVars, io, ctl, last, provVars>>)
    \/ (LocArrive /\ UNCHANGED <<sideVars, rsVars, io, ctl, last, provVars>>)
    \/ (LocPoll /\ UNCHANGED <<sideVars, rsVars, io, ctl, last, provVars>>)
    \/ (LocShutdown /\ UNCHANGED <<sideVars, rsVars, io, ctl, last, provVars>>)

NextAnn ==
    \/ (LocStart /\ UNCHANGED <<sideVars, rsVars, io, ctl, last, provVars>>)
    \/ (AnnPoll /\ UNCHANGED <<sideVars, rsVars, io, ctl, last, provVars>>)
    \/ (LocShutdown /\ UNCHANGED <<sideVars, rsVars, io, ctl, last, provVars>>)

(***************************************************************************)
(* RadarProvider                                                            *)
(***************************************************************************)
\* char::is_ascii_alphanumeric
IsAsciiAlphanumeric(c) ==
    c \in {Ascii[k] : k \in 1..Len(Ascii)} \ {" ", "-", ".", ":", "_"}

\* sanitize_string
sanitize_string(s) ==
    SelectSeq(s, LAMBDA c : IsAsciiAlphanumeric(c) \/ c = "-" \/ c = "_")

\* RadarState::from: the id under which the provider knows a radar
RadarStateId(d) == BrandStr(d.brand) \o <<"-">> \o sanitize_string(d.name)

\* str::contains
Contains(s, sub) ==
    \E k \in 0..(Len(s) - Len(sub)) : SubSeq(s, k + 1, k + Len(sub)) = sub

\* The controllers whose code is in other crates: what they were built with
\* and how often they were polled
FurunoController_new(radar_id, ip) == [radar_id |-> radar_id, ip |-> ip, polls |-> 0]

NavicoController_new(radar_id, command_addr, command_port, report_addr, report_port, model) ==
    [radar_id |-> radar_id, command_addr |-> command_addr,
     command_port |-> command_port, report_addr |-> report_addr,
     report_port |-> report_port, model |-> model, polls |-> 0]

GarminController_new(radar_id, ip) == [radar_id |-> radar_id, ip |-> ip, polls |-> 0]

NAVICO_COMMAND_ADDR == <<"2", "3", "6", ".", "6", ".", "7", ".", "8">>
NAVICO_REPORT_ADDR == <<"2", "3", "6", ".", "6", ".", "7", ".", "9">>
NAVICO_REPORT_PORT == 6680

\* The NavicoModel chosen from the model name of the discovery
NavicoModelOf(model) ==
    IF model.some /\ Contains(model.val, <<"H", "A", "L", "O">>) THEN "Halo"
    ELSE IF model.some /\ Contains(model.val, <<"4", "G">>) THEN "Gen4"
    ELSE IF model.some /\ Contains(model.val, <<"3", "G">>) THEN "Gen3"
    ELSE IF model.some /\ Contains(model.val, <<"B", "R", "2", "4">>) THEN "BR24"
    ELSE "Gen4"

\* The RaymarineVariant and the doppler flag chosen from the model name
RaymarineVariantOf(model) ==
    IF model.some /\ Contains(model.val, <<"Q", "u", "a", "n", "t", "u", "m", " ", "2">>)
    THEN [variant |-> "Quantum", has_doppler |-> TRUE]
    ELSE IF model.some /\ Contains(model.val, <<"Q", "u", "a", "n", "t", "u", "m">>)
    THEN [variant |-> "Quantum", has_doppler |-> FALSE]
    ELSE [variant |-> "RD", has_doppler |-> FALSE]

\* RadarProvider::new: the controller maps are empty and no configuration
\* was saved before; stored is what save_config has written
RadarProvider_new ==
    [poll_count |-> 0, furuno_controllers |-> <<>>, navico_controllers |-> <<>>,
     raymarine_controllers |-> <<>>, garmin_controllers |-> <<>>,
     config |-> <<>>, stored |-> <<>>]

\* The keys of the locator's radars of one brand, in iteration order
BrandRadars(l, brand) ==
    SelectSeq(KeysInOrder(DOMAIN l.radars),
              LAMBDA k : l.radars[k].discovery.brand = brand)

\* The controller the poll builds for a discovery
NewController(d) ==
    LET radar_id == RadarStateId(d)
        ip == IpOf(d.address)
    IN  CASE d.brand = "Furuno" -> FurunoController_new(radar_id, ip)
          [] d.brand = "Navico" ->
                NavicoController_new(radar_id, NAVICO_COMMAND_ADDR, d.command_port,
                                     NAVICO_REPORT_ADDR, NAVICO_REPORT_PORT,
                                     NavicoModelOf(d.model))
          [] d.brand = "Raymarine" ->
                RaymarineController_new(radar_id, ip, d.command_port, ip, d.data_port,
                                        RaymarineVariantOf(d.model).variant,
                                        RaymarineVariantOf(d.model).has_doppler)
          [] d.brand = "Garmin" -> GarminController_new(radar_id, ip)

\* "Create controller if not exists": one pass over the radars of a brand
RECURSIVE CreateControllers(_, _, _)
CreateControllers(m, l, keys) ==
    IF keys = <<>> THEN m
    ELSE LET d == l.radars[Head(keys)].discovery
             radar_id == RadarStateId(d)
         IN  CreateControllers(
                 IF radar_id \in DOMAIN m THEN m ELSE (radar_id :> NewController(d)) @@ m,
                 l, Tail(keys))

\* controller.poll of a controller of another crate
StubPoll(c) == [c EXCEPT !.polls = @ + 1]

\* The model a Furuno controller reports is written to every radar of the
\* locator with the controller's id
RECURSIVE UpdateModels(_, _, _)
UpdateModels(l, ids, model) ==
    IF ids = <<>> \/ ~model.some THEN l
    ELSE UpdateModels(
             [l EXCEPT !.radars =
                 [k \in DOMAIN @ |->
                     IF RadarStateId(@[k].discovery) = Head(ids)
                     THEN [@[k] EXCEPT !.discovery.model = model]
                     ELSE @[k]]],
             Tail(ids), model)

\* Poll all Raymarine controllers in key order; they share the IoProvider
RECURSIVE PollRaymarine(_, _, _, _)
PollRaymarine(m, i, ids, o) ==
    IF ids = <<>> THEN [map |-> m, io |-> i]
    ELSE LET r == RaymarinePoll(m[Head(ids)], i, o)
         IN  PollRaymarine([m EXCEPT ![Head(ids)] = r.ctl], r.io, Tail(ids), o)

\* RadarProvider::poll.  o: what the IoProvider answers to a controller that
\* opens its sockets; fmodel: what FurunoController::model returns
provider_poll(p, l, n, i, o, fmodel) ==
    LET lp == locator_poll(l, n, [k \in 1..3 |-> TRUE])
        furuno == CreateControllers(p.furuno_controllers, lp.loc,
                                    BrandRadars(lp.loc, "Furuno"))
        navico == CreateControllers(p.navico_controllers, lp.loc,
                                    BrandRadars(lp.loc, "Navico"))
        raymarine == CreateControllers(p.raymarine_controllers, lp.loc,
                                       BrandRadars(lp.loc, "Raymarine"))
        garmin == CreateControllers(p.garmin_controllers, lp.loc,
                                    BrandRadars(lp.loc, "Garmin"))
        l1 == UpdateModels(lp.loc, KeysInOrder(DOMAIN furuno), fmodel)
        rp == PollRaymarine(raymarine, i, KeysInOrder(DOMAIN raymarine), o)
    IN  [prov |-> [poll_count |-> p.poll_count + 1,
                   furuno_controllers |-> [k \in DOMAIN furuno |-> StubPoll(furuno[k])],
                   navico_controllers |-> [k \in DOMAIN navico |-> StubPoll(navico[k])],
                   raymarine_controllers |-> rp.map,
                   garmin_controllers |-> [k \in DOMAIN garmin |-> StubPoll(garmin[k])],
                   config |-> p.config, stored |-> p.stored],
         loc |-> l1,
         net |-> lp.net,
         io |-> rp.io,
         new |-> lp.new,
         returned |-> 0]

\* A mutant of find_radar: the radar is looked up by the locator's key
FindRadarMutant(l, radar_id) ==
    IF radar_id \in DOMAIN l.radars THEN [some |-> TRUE, val |-> radar_id] ELSE NoStr

\* find_radar: the first radar in key order with that provider id
find_radar(l, radar_id) ==
    LET hits == {k \in DOMAIN l.radars : RadarStateId(l.radars[k].discovery) = radar_id}
    IN  IF hits = {} THEN NoStr ELSE [some |-> TRUE, val |-> FirstKey(hits)]

\* send_control_command: the fallback datagram to the server's control port
CONTROL_PORT == 3002
FallbackOutcomes == [bind : BOOLEAN, send : BOOLEAN]
send_control_command(fb) == fb.bind /\ fb.send

\* A call the provider hands to a controller
Call(brand, radar_id, name, flag, value) ==
    [brand |-> brand, radar_id |-> radar_id, name |-> name, flag |-> flag,
     value |-> value]

Min(a, b) == IF a < b THEN a ELSE b

\* The body shared by set_power, set_range, set_gain, set_sea and set_rain:
\* the first brand map that holds radar_id gets the call and the answer is
\* true; without a controller the fallback decides
Dispatch(p, l, radar_id, name, flag, value, oks, fb) ==
    IF radar_id \in DOMAIN p.furuno_controllers
    THEN [result |-> TRUE,
          announce |-> send_furuno_announce(l, [k \in 1..3 |-> TRUE]),
          calls |-> << Call("Furuno", radar_id,
                            IF name = "set_power" THEN "set_transmit" ELSE name,
                            flag, value) >>,
          wire |-> <<>>]
    ELSE IF radar_id \in DOMAIN p.navico_controllers
    THEN [result |-> TRUE, announce |-> <<>>,
          calls |-> << Call("Navico", radar_id, name,
                            IF name = "set_rain" THEN FALSE ELSE flag,
                            IF name = "set_range" THEN value * 10 ELSE value) >>,
          wire |-> <<>>]
    ELSE IF radar_id \in DOMAIN p.raymarine_controllers
    THEN LET v == IF name = "set_range" THEN Min(value \div 100, 255) ELSE value
         IN  [result |-> TRUE, announce |-> <<>>,
              calls |-> << Call("Raymarine", radar_id, name, flag, v) >>,
              wire |-> RaymarineSet(p.raymarine_controllers[radar_id],
                                    [name |-> name, flag |-> flag, value |-> v],
                                    oks).wire]
    ELSE IF radar_id \in DOMAIN p.garmin_controllers
    THEN [result |-> TRUE, announce |-> <<>>,
          calls |-> << Call("Garmin", radar_id, name, flag, value) >>,
          wire |-> <<>>]
    ELSE [result |-> find_radar(l, radar_id).some /\ send_control_command(fb),
          announce |-> <<>>, calls |-> <<>>, wire |-> <<>>]

\* RadarProvider::set_power, set_range, set_gain, set_sea, set_rain
set_power(p, l, radar_id, state, oks, fb) ==
    Dispatch(p, l, radar_id, "set_power", state = "transmit", 0, oks, fb)

set_range(p, l, radar_id, range, oks, fb) ==
    Dispatch(p, l, radar_id, "set_range", FALSE, range, oks, fb)

set_gain(p, l, radar_id, auto, value, oks, fb) ==
    Dispatch(p, l, radar_id, "set_gain", auto, IF value.some THEN value.val ELSE 50,
             oks, fb)

set_sea(p, l, radar_id, auto, value, oks, fb) ==
    Dispatch(p, l, radar_id, "set_sea", auto, IF value.some THEN value.val ELSE 50,
             oks, fb)

set_rain(p, l, radar_id, auto, value, oks, fb) ==
    Dispatch(p, l, radar_id, "set_rain", auto, IF value.some THEN value.val ELSE 50,
             oks, fb)

\* serde_json::Value: null, a number, a string, or an object whose "mode" is
\* a string or absent and whose "value" is a number or absent
JNull ==
    [kind |-> "null", n |-> 0, s |-> "", mode |-> [some |-> FALSE, val |-> ""],
     value |-> None]
JNum(n) == [JNull EXCEPT !.kind = "number", !.n = n]
JStr(s) == [JNull EXCEPT !.kind = "string", !.s = s]
JObj(mode, value) == [JNull EXCEPT !.kind = "object", !.mode = mode, !.value = value]

\* Value::as_u64 and Value::as_str
as_u64(v) == IF v.kind = "number" /\ v.n >= 0 THEN Some(v.n) ELSE None
as_str(v) == IF v.kind = "string" THEN [some |-> TRUE, val |-> v.s]
             ELSE [some |-> FALSE, val |-> ""]

\* "as u8"
AsU8(n) == n % 256

\* parse_compound_control
parse_compound_control(v) ==
    IF as_u64(v).some
    THEN [ok |-> TRUE, auto |-> FALSE, val |-> Some(AsU8(as_u64(v).val))]
    ELSE IF v.kind = "object"
    THEN [ok |-> TRUE,
          auto |-> (IF v.mode.some THEN v.mode.val ELSE "manual") = "auto",
          val |-> IF v.value.some /\ v.value.val >= 0
                  THEN Some(AsU8(v.value.val)) ELSE None]
    ELSE [ok |-> FALSE, auto |-> FALSE, val |-> None]

NoCalls(result) == [result |-> result, announce |-> <<>>, calls |-> <<>>, wire |-> <<>>]

\* Ok(()) when the setter answered true, ControllerNotAvailable otherwise
Answer(r) == [r EXCEPT !.result = IF r.result THEN "Ok" ELSE "ControllerNotAvailable"]

BaseControls == {"power", "range", "gain", "sea", "rain"}

\* Value::as_bool, Value::as_f64 and Value::as_i64; the numbers of the model
\* are integers
JBool(b) == [JNull EXCEPT !.kind = "bool", !.n = IF b THEN 1 ELSE 0]
as_bool(v) == IF v.kind = "bool" THEN [some |-> TRUE, val |-> v.n = 1] ELSE [some |-> FALSE, val |-> FALSE]
as_f64(v) == IF v.kind = "number" THEN Some(v.n) ELSE None
as_i64(v) == IF v.kind = "number" THEN Some(v.n) ELSE None

\* RadarInstallationConfig::default
RadarInstallationConfig == [bearing_alignment |-> None, antenna_height |-> None]

InstallConfigOf(p, radar_id) ==
    IF radar_id \in DOMAIN p.config THEN p.config[radar_id] ELSE RadarInstallationConfig

\* set_installation_config: save_ok tells whether save_config could write
set_installation_config(p, radar_id, config, save_ok) ==
    LET radars == (radar_id :> config) @@ p.config
    IN  [p EXCEPT !.config = radars, !.stored = IF save_ok THEN radars ELSE @]

\* BTreeMap::remove
MapRemove(m, k) == [x \in DOMAIN m \ {k} |-> m[x]]

\* What a request did: its answer, the packets and controller calls it made
\* and the provider it leaves
Done(p, result, announce, calls, w) ==
    [result |-> result, announce |-> announce, calls |-> calls, wire |-> w, prov |-> p]

\* The extended controls of Furuno that take a number (as_u64) or a boolean
U64Setter(control_id) ==
    CASE control_id = "beamSharpening" -> "set_rezboost"
      [] control_id = "scanSpeed" -> "set_scan_speed"
      [] control_id = "birdMode" -> "set_bird_mode"
      [] control_id = "mainBangSuppression" -> "set_main_bang_suppression"
      [] control_id = "txChannel" -> "set_tx_channel"

U64Controls == {"beamSharpening", "scanSpeed", "birdMode", "mainBangSuppression", "txChannel"}

BoolSetter(control_id) ==
    CASE control_id = "noiseReduction" -> "set_noise_reduction"
      [] control_id = "autoAcquire" -> "set_auto_acquire"

BoolControls == {"noiseReduction", "autoAcquire"}

\* furuno_set_extended_control.  The controller is taken out of the map and
\* put back at the end: an arm that returns with `?` leaves it out.  The
\* casts "as i32" keep the numbers of the model; dopplerMode and
\* noTransmitZones are given values without "enabled" and "zones"
furuno_set_extended_control(p, l, radar_id, control_id, value, save_ok) ==
    LET announce == send_furuno_announce(l, [k \in 1..3 |-> TRUE])
        taken == [p EXCEPT !.furuno_controllers = MapRemove(@, radar_id)]
        ok(name, flag, v) == Done(p, "Ok", announce, <<Call("Furuno", radar_id, name, flag, v)>>, <<>>)
        lost == Done(taken, "InvalidValue", announce, <<>>, <<>>)
    IN  IF radar_id \notin DOMAIN p.furuno_controllers
        THEN Done(p, "ControllerNotAvailable", announce, <<>>, <<>>)
        ELSE IF control_id \in U64Controls
        THEN IF ~as_u64(value).some THEN lost
             ELSE ok(U64Setter(control_id), FALSE, as_u64(value).val)
        ELSE IF control_id = "interferenceRejection"
        THEN IF as_bool(value).some THEN ok("set_interference_rejection", as_bool(value).val, 0)
             ELSE IF as_u64(value).some THEN ok("set_interference_rejection", as_u64(value).val # 0, 0)
             ELSE Done(p, "InvalidValue", announce, <<>>, <<>>)
        ELSE IF control_id = "dopplerMode"
        THEN ok("set_target_analyzer", FALSE,
                IF value.kind = "object" /\ value.mode.some /\ value.mode.val = "rain" THEN 1 ELSE 0)
        ELSE IF control_id = "bearingAlignment"
        THEN IF ~as_f64(value).some THEN lost
             ELSE LET c == [InstallConfigOf(p, radar_id) EXCEPT !.bearing_alignment = as_f64(value)]
                  IN  [ok("set_bearing_alignment", FALSE, as_f64(value).val) EXCEPT
                          !.prov = set_installation_config(p, radar_id, c, save_ok)]
        ELSE IF control_id \in BoolControls
        THEN IF ~as_bool(value).some THEN lost
             ELSE ok(BoolSetter(control_id), as_bool(value).val, 0)
        ELSE IF control_id = "dopplerSpeed"
        THEN IF ~as_f64(value).some THEN lost
             ELSE ok("set_target_analyzer", TRUE, as_f64(value).val)
        ELSE IF control_id = "antennaHeight"
        THEN IF ~as_i64(value).some THEN lost
             ELSE IF as_i64(value).val < 0 \/ as_i64(value).val > 100
             THEN Done(p, "InvalidValue", announce, <<>>, <<>>)
             ELSE LET c == [InstallConfigOf(p, radar_id) EXCEPT !.antenna_height = as_i64(value)]
                  IN  [ok("set_antenna_height", FALSE, as_i64(value).val) EXCEPT
                          !.prov = set_installation_config(p, radar_id, c, save_ok)]
        ELSE IF control_id = "noTransmitZones" THEN lost
        ELSE Done(p, "ControlNotFound", announce, <<>>, <<>>)

\* set_extended_control: Furuno has extended controls, the other brands none
set_extended_control(p, l, radar_id, control_id, value, save_ok) ==
    LET radar == find_radar(l, radar_id)
    IN  IF ~radar.some THEN Done(p, "RadarNotFound", <<>>, <<>>, <<>>)
        ELSE IF l.radars[radar.val].discovery.brand = "Furuno"
        THEN furuno_set_extended_control(p, l, radar_id, control_id, value, save_ok)
        ELSE Done(p, "ControlNotFound", <<>>, <<>>, <<>>)

\* The base controls leave the provider as it is
Keep(p, r) == Done(p, r.result, r.announce, r.calls, r.wire)

\* RadarProvider::set_control_v5.  The range is cast with "as u32"; the
\* requests of the model stay below 2^31, where the cast keeps the number
set_control_v5(p, l, radar_id, control_id, value, oks, fb, save_ok) ==
    IF ~find_radar(l, radar_id).some THEN Keep(p, NoCalls("RadarNotFound"))
    ELSE CASE control_id = "power" ->
                IF ~as_str(value).some THEN Keep(p, NoCalls("InvalidValue"))
                ELSE Keep(p, Answer(set_power(p, l, radar_id, as_str(value).val, oks, fb)))
           [] control_id = "range" ->
                IF ~as_u64(value).some THEN Keep(p, NoCalls("InvalidValue"))
                ELSE Keep(p, Answer(set_range(p, l, radar_id, as_u64(value).val, oks, fb)))
           [] control_id = "gain" ->
                LET c == parse_compound_control(value)
                IN  IF ~c.ok THEN Keep(p, NoCalls("InvalidValue"))
                    ELSE Keep(p, Answer(set_gain(p, l, radar_id, c.auto, c.val, oks, fb)))
           [] control_id = "sea" ->
                LET c == parse_compound_control(value)
                IN  IF ~c.ok THEN Keep(p, NoCalls("InvalidValue"))
                    ELSE Keep(p, Answer(set_sea(p, l, radar_id, c.auto, c.val, oks, fb)))
           [] control_id = "rain" ->
                LET c == parse_compound_control(value)
                IN  IF ~c.ok THEN Keep(p, NoCalls("InvalidValue"))
                    ELSE Keep(p, Answer(set_rain(p, l, radar_id, c.auto, c.val, oks, fb)))
           [] OTHER -> set_extended_control(p, l, radar_id, control_id, value, save_ok)

(***************************************************************************)
(* State machine of the provider                                           *)
(***************************************************************************)
RaymarineB == Discovery("Raymarine", <<"Q", "2", "4">>, <<"6">>, NoStr, 2575, 2574)

\* What can arrive on each socket of the locator while the provider polls
ProvDatagrams(k) ==
    CASE k = "furuno" -> {Beacon(FurunoA)}
      [] k = "navico_br24" -> {}
      [] k = "navico_gen3" -> {Beacon(NavicoA)}
      [] k = "raymarine" -> {Beacon(RaymarineA), Beacon(RaymarineB)}
      [] k = "garmin" -> {Beacon(GarminA)}

\* ... and while control requests are made
ReqDatagrams(k) ==
    CASE k = "furuno" -> {Beacon(FurunoA)}
      [] k = "raymarine" -> {Beacon(RaymarineA)}
      [] OTHER -> {}

FurunoControllerModels == {NoStr, Some(<<"D", "R", "S", "4", "D">>)}

NoRes ==
    [op |-> "none", radar_id |-> <<>>, control_id |-> "", value |-> JNull,
     result |-> "", calls |-> <<>>, announce |-> <<>>,
     returned |-> 0, discovered |-> 0, activity |-> FALSE]

\* The provider part of a behaviour that involves no provider
ProvIdle ==
    /\ prov = RadarProvider_new
    /\ pres = NoRes

\* RadarProvider::new: the locator is started
ProvInit ==
    /\ io = IoInit
    /\ ctl = RaymarineController_new(<<>>, <<>>, 0, <<>>, 0, "Quantum", FALSE)
    /\ wire = <<>>
    /\ last = NoOp
    /\ \E up \in StartOutcomes :
          loc = locator_start(RadarLocator_new, up, [k \in 1..3 |-> TRUE]).loc
    /\ net = NoNet
    /\ lpoll = NoPoll
    /\ prov = RadarProvider_new
    /\ pres = NoRes

NoSockets ==
    [cmd_create |-> FALSE, cmd_bind |-> FALSE, rep_create |-> FALSE,
     rep_bind |-> FALSE, rep_join |-> FALSE]

\* A beacon arrives on a socket of the locator
ProvArrive ==
    /\ InFlight(net) < MaxInFlight
    /\ \E k \in LocSockets :
          /\ loc.sockets[k]
          /\ \E d \in ProvDatagrams(k) : net' = [net EXCEPT ![k] = Append(@, d)]
    /\ pres' = NoRes
    /\ wire' = <<>>
    /\ UNCHANGED <<sideVars, rsVars, io, ctl, last, loc, lpoll, prov>>

ReqArrive ==
    /\ InFlight(net) < MaxInFlight
    /\ \E k \in LocSockets :
          /\ loc.sockets[k]
          /\ \E d \in ReqDatagrams(k) : net' = [net EXCEPT ![k] = Append(@, d)]
    /\ pres' = NoRes
    /\ wire' = <<>>
    /\ UNCHANGED <<sideVars, rsVars, io, ctl, last, loc, lpoll, prov>>

\* The controller maps as the coming poll leaves them before it polls them
Created(brand, m) ==
    LET l == locator_poll(loc, net, [k \in 1..3 |-> TRUE]).loc
    IN  CreateControllers(m, l, BrandRadars(l, brand))

\* What the IoProvider can answer to the controllers of the coming poll that
\* open their sockets: everything works, or a create fails
PollOutcomes ==
    LET m == Created("Raymarine", prov.raymarine_controllers)
    IN  IF \E k \in DOMAIN m : m[k].state = "Disconnected"
        THEN {o \in SocketOutcomes :
                 /\ Feasible(io, o)
                 /\ o.cmd_create = o.cmd_bind
                 /\ o.rep_create = o.rep_bind /\ o.rep_bind = o.rep_join}
        ELSE {NoSockets}

\* What the Furuno controllers of the coming poll can report as their model
PollModels ==
    IF Created("Furuno", prov.furuno_controllers) = <<>>
    THEN {NoStr} ELSE FurunoControllerModels

\* The radars the poll that is being made has added to the locator, and
\* whether a Raymarine controller answers its poll with true: one created by
\* this poll opens its sockets, an older one answers as its own poll tells.
\* The provider drops the answers (controller.poll(&mut self.io);)
PollDiscovered == Cardinality(DOMAIN loc'.radars) - Cardinality(DOMAIN loc.radars)
PollActivity ==
    \E k \in DOMAIN prov'.raymarine_controllers :
       \/ k \notin DOMAIN prov.raymarine_controllers
       \/ RaymarinePoll(prov.raymarine_controllers[k], io, NoSockets).activity

PollProvider ==
    /\ \E o \in PollOutcomes, fmodel \in PollModels :
          \E r \in {provider_poll(prov, loc, net, io, o, fmodel)} :
              /\ prov' = r.prov
              /\ loc' = r.loc
              /\ net' = r.net
              /\ io' = r.io
              /\ pres' = [NoRes EXCEPT !.op = "poll", !.returned = r.returned,
                                       !.discovered = PollDiscovered,
                                       !.activity = PollActivity]
    /\ wire' = <<>>
    /\ UNCHANGED <<sideVars, rsVars, ctl, last, lpoll>>

ProvPoll == prov.poll_count < MaxProvPolls /\ PollProvider

ExtPoll == prov.poll_count < MaxExtPolls /\ PollProvider

RequestIds == {RadarStateId(FurunoA), RadarStateId(RaymarineA), <<"X">>}

RequestValues(control_id) ==
    CASE control_id = "power" -> {JStr("transmit"), JStr("standby"), JNum(1)}
      [] control_id = "range" -> {JNum(1852), JNum(123), JNum(30000), JStr("far")}
      [] OTHER -> {JNum(50), JNum(101), JNum(300), JNum(-1), JNull,
                   JObj([some |-> TRUE, val |-> "auto"], None),
                   JObj([some |-> TRUE, val |-> "manual"], Some(50)),
                   JObj([some |-> FALSE, val |-> ""], Some(300))}

\* The answers of udp_send_to that a request can meet: one per frame the
\* Raymarine controller of the radar builds
SendOutcomes(radar_id, control_id, value) ==
    IF radar_id \in DOMAIN prov.raymarine_controllers
    THEN LET all == [k \in 1..2 |-> TRUE]
             sent == Len(set_control_v5(prov, loc, radar_id, control_id, value, all,
                                        [bind |-> TRUE, send |-> TRUE], TRUE).wire)
         IN  {oks \in [1..2 -> BOOLEAN] : \A k \in 1..2 : k > sent => oks[k]}
    ELSE {[k \in 1..2 |-> TRUE]}

\* The answers the fallback socket can meet
RequestFallbacks(radar_id) ==
    IF \/ radar_id \in DOMAIN prov.furuno_controllers
       \/ radar_id \in DOMAIN prov.navico_controllers
       \/ radar_id \in DOMAIN prov.raymarine_controllers
       \/ radar_id \in DOMAIN prov.garmin_controllers
       \/ ~find_radar(loc, radar_id).some
    THEN {[bind |-> TRUE, send |-> TRUE]}
    ELSE FallbackOutcomes

\* A request leaves the provider as it found it, so a request that follows
\* another one meets the provider the first one met: the behaviours have
\* another step between two requests
ProvRequest ==
    /\ pres.op # "set_control_v5"
    /\ \E radar_id \in RequestIds, control_id \in BaseControls :
          \E value \in RequestValues(control_id) :
             \E oks \in SendOutcomes(radar_id, control_id, value),
                fb \in RequestFallbacks(radar_id) :
                LET r == set_control_v5(prov, loc, radar_id, control_id, value, oks, fb, TRUE)
                IN  /\ pres' = [NoRes EXCEPT !.op = "set_control_v5",
                                             !.radar_id = radar_id,
                                             !.control_id = control_id,
                                             !.value = value, !.result = r.result,
                                             !.calls = r.calls,
                                             !.announce = r.announce]
                    /\ wire' = r.wire
    /\ UNCHANGED <<sideVars, rsVars, io, ctl, last, loc, net, lpoll, prov>>

\* Requests for every control id, also with the locator's key of a radar
\* whose provider id differs from it
ExtRequestIds == RequestIds \cup {make_radar_id(RaymarineA)}

ExtControls ==
    U64Controls \cup BoolControls
        \cup {"interferenceRejection", "dopplerMode", "bearingAlignment", "dopplerSpeed",
              "antennaHeight", "noTransmitZones", "accentLight"}

ExtValues(control_id) ==
    CASE control_id = "power" -> {JStr("transmit")}
      [] control_id \in BaseControls \ {"power"} -> {JNum(50)}
      [] control_id = "bearingAlignment" -> {JNum(45), JNum(-181), JStr("x")}
      [] control_id = "antennaHeight" -> {JNum(10), JNum(101), JNum(-1)}
      [] control_id = "interferenceRejection" -> {JBool(TRUE), JNum(1), JNull}
      [] control_id \in BoolControls -> {JBool(TRUE), JNum(1)}
      [] OTHER -> {JNum(1), JNull}

ProvExtRequest ==
    /\ pres.op # "set_control_v5"
    /\ \E radar_id \in ExtRequestIds, control_id \in BaseControls \cup ExtControls :
          \E value \in ExtValues(control_id), save_ok \in BOOLEAN :
             LET r == set_control_v5(prov, loc, radar_id, control_id, value, [k \in 1..2 |-> TRUE],
                                     [bind |-> TRUE, send |-> TRUE], save_ok)
             IN  /\ pres' = [NoRes EXCEPT !.op = "set_control_v5",
                                          !.radar_id = radar_id,
                                          !.control_id = control_id,
                                          !.value = value, !.result = r.result,
                                          !.calls = r.calls,
                                          !.announce = r.announce]
                 /\ wire' = r.wire
                 /\ prov' = r.prov
    /\ UNCHANGED <<sideVars, rsVars, io, ctl, last, loc, net, lpoll>>

\* A provider just created, with the beacons that reached the sockets of its
\* locator since RadarProvider::new bound them
ExtInit ==
    /\ io = IoInit
    /\ ctl = RaymarineController_new(<<>>, <<>>, 0, <<>>, 0, "Quantum", FALSE)
    /\ wire = <<>>
    /\ last = NoOp
    /\ loc = locator_start(RadarLocator_new, AllUp, [k \in 1..3 |-> TRUE]).loc
    /\ \E f \in {<<>>, <<Beacon(FurunoA)>>}, r \in {<<>>, <<Beacon(RaymarineA)>>} :
          net = [NoNet EXCEPT !["furuno"] = f, !["raymarine"] = r]
    /\ lpoll = NoPoll
    /\ prov = RadarProvider_new
    /\ pres = NoRes

NextExt ==
    \/ ExtPoll
    \/ ProvExtRequest

NextProv ==
    \/ ProvArrive
    \/ ProvPoll

NextReq ==
    \/ ReqArrive
    \/ ProvPoll
    \/ ProvRequest

(***************************************************************************)
(* TCP sockets of the IoProvider: line reception                           *)
(***************************************************************************)
CR == "\r"
LF == "\n"

\* The size of temp_buf, the most bytes one try_read takes
TEMP_BUF_LEN == 1024

\* tcp_create followed by a tcp_connect that succeeded; pending holds the
\* bytes that arrived and were not read yet, closed tells that the peer
\* closed the connection; sent, got and ret record what the peer sent, the
\* lines tcp_recv_line returned and what the latest call returned
TcpConnected ==
    [socket |-> TRUE, connecting |-> FALSE, line_buffer |-> <<>>,
     line_buffered |-> FALSE, pending |-> <<>>, closed |-> FALSE,
     sent |-> <<>>, got |-> <<>>, called |-> FALSE, ret |-> NoStr]

\* trim_end_matches('\r')
RECURSIVE TrimEndCr(_)
TrimEndCr(s) ==
    IF s # <<>> /\ s[Len(s)] = CR THEN TrimEndCr(SubSeq(s, 1, Len(s) - 1)) ELSE s

\* The outcomes of try_read: n bytes, end of stream, or nothing to read yet
ReadOutcomes(t) ==
    IF t.pending # <<>>
    THEN {[kind |-> "data", n |-> n] :
             n \in 1..(IF Len(t.pending) < TEMP_BUF_LEN THEN Len(t.pending)
                       ELSE TEMP_BUF_LEN)}
    ELSE IF t.closed THEN {[kind |-> "eof", n |-> 0]}
    ELSE {[kind |-> "wouldblock", n |-> 0]}

\* tcp_recv_line with a caller's buffer of buf_len bytes
tcp_recv_line(t, r, buf_len) ==
    IF ~t.socket \/ r.kind = "eof" \/ r.kind = "error"
    THEN [tcp |-> t, ret |-> NoStr]
    ELSE LET t1 == [t EXCEPT !.line_buffer = @ \o SubSeq(t.pending, 1, r.n),
                             !.pending = SubSeq(@, r.n + 1, Len(@))]
             pos == Find(t1.line_buffer, LF)
         IN  IF pos <= Len(t1.line_buffer)
             THEN LET l == TrimEndCr(SubSeq(t1.line_buffer, 1, pos - 1))
                      len == IF Len(l) < buf_len THEN Len(l) ELSE buf_len
                  IN  [tcp |-> [t1 EXCEPT !.line_buffer =
                                              SubSeq(@, pos + 1, Len(@))],
                       ret |-> [some |-> TRUE, val |-> SubSeq(l, 1, len)]]
             ELSE [tcp |-> t1, ret |-> NoStr]

\* What the peer writes, byte by byte
PeerBytes == {"a", CR, LF}

\* The caller's buffers hold every line of the model
RecvBufLens == {64}

TcpIdle == tcp = TcpConnected

PeerSend ==
    /\ ~tcp.closed
    /\ Len(tcp.sent) < MaxStream
    /\ \E b \in PeerBytes :
          tcp' = [tcp EXCEPT !.pending = Append(@, b), !.sent = Append(@, b),
                             !.called = FALSE, !.ret = NoStr]

PeerClose ==
    /\ ~tcp.closed
    /\ tcp' = [tcp EXCEPT !.closed = TRUE, !.called = FALSE, !.ret = NoStr]

TcpRecvLine ==
    \E r \in ReadOutcomes(tcp), buf_len \in RecvBufLens :
        LET x == tcp_recv_line(tcp, r, buf_len)
        IN  tcp' = [x.tcp EXCEPT !.called = TRUE, !.ret = x.ret,
                                 !.got = IF x.ret.some THEN Append(@, x.ret.val) ELSE @]

NextTcp ==
    \/ (PeerSend /\ UNCHANGED <<rsVars, ctlVars, locVars, provVars, navVars, dopVars, fcVars, clockVars>>)
    \/ (PeerClose /\ UNCHANGED <<rsVars, ctlVars, locVars, provVars, navVars, dopVars, fcVars, clockVars>>)
    \/ (TcpRecvLine /\ UNCHANGED <<rsVars, ctlVars, locVars, provVars, navVars, dopVars, fcVars, clockVars>>)

(***************************************************************************)
(* NavicoReportReceiver                                                    *)
(***************************************************************************)
REPORT_REQUEST_INTERVAL == 5000
\* The sleep of start_report_socket after a failure, and of run before it
\* opens the socket again
RETRY_SLEEP == 1000

REPORT_01_C4_18 == 1
REPORT_02_C4_99 == 2
REPORT_03_C4_129 == 3
REPORT_04_C4_66 == 4
REPORT_06_C4_68 == 6
REPORT_08_C4_18_OR_21_OR_22 == 8
\* data[1] of a report, and of the answers 0xc6
TAG_C4 == 196
TAG_C6 == 198

REQUEST_03_REPORT == <<4, 194>>
REQUEST_MANY2_REPORT == <<1, 194>>
COMMAND_STAY_ON_A == <<160, 193>>

NavicoModels == {"Unknown", "BR24", "Gen3", "Gen4", "HALO"}

NoControls ==
    [power |-> "unset", range |-> -1, operatingHours |-> -1, firmwareVersion |-> <<>>,
     bearingAlignment |-> -1]

\* NavicoReportReceiver::new at time 0; pc tells where run stands, sock is the
\* socket of the command sender, shutdown tells that shutdown was requested;
\* seen, last_open, open_failed and last_burst record the unknown report ids
\* received, the time and result of the latest start_report_socket and the
\* time of the latest burst of report requests
NavicoReportReceiver_new(replay, model) ==
    [pc |-> "new", now |-> 0, shutdown |-> FALSE,
     replay |-> replay, report_socket |-> FALSE, model |-> model,
     command_sender |-> ~replay, sock |-> FALSE, doppler |-> FALSE,
     report_request_timeout |-> 0, reported_unknown |-> {},
     controls |-> NoControls,
     seen |-> {}, last_open |-> -1, open_failed |-> FALSE, last_burst |-> -1]

\* start_report_socket: an open that fails sleeps a second
start_report_socket(n, ok) ==
    IF ok THEN [n EXCEPT !.report_socket = TRUE]
    ELSE [n EXCEPT !.now = @ + RETRY_SLEEP]

\* Command::send for the k-th packet of a burst: the socket is opened on the
\* first use; the result tells whether the packet left
CommandSend(sock, start_ok, ok) ==
    IF ~sock /\ ~start_ok THEN [sock |-> FALSE, sent |-> FALSE]
    ELSE [sock |-> TRUE, sent |-> ok]

RequestBurst == <<REQUEST_03_REPORT, REQUEST_MANY2_REPORT, COMMAND_STAY_ON_A>>

\* Command::send_report_requests: the packets sent, up to the first failure
RECURSIVE CommandSendReportRequests(_, _, _, _)
CommandSendReportRequests(sock, k, start_ok, oks) ==
    IF k > Len(RequestBurst) THEN [sock |-> sock, sent |-> <<>>, ok |-> TRUE]
    ELSE LET r == CommandSend(sock, start_ok, oks[k])
         IN  IF ~r.sent THEN [sock |-> r.sock, sent |-> <<>>, ok |-> FALSE]
             ELSE LET rest == CommandSendReportRequests(r.sock, k + 1, start_ok, oks)
                  IN  [rest EXCEPT !.sent = <<RequestBurst[k]>> \o @]

\* NavicoReportReceiver::send_report_requests
send_report_requests(n, start_ok, oks) ==
    LET r == CommandSendReportRequests(n.sock, 1, start_ok, oks)
    IN  IF n.command_sender /\ ~r.ok
        THEN [nav |-> [n EXCEPT !.sock = r.sock], sent |-> r.sent, ok |-> FALSE]
        ELSE [nav |-> [n EXCEPT !.sock = IF n.command_sender THEN r.sock ELSE @,
                                !.report_request_timeout = @ + REPORT_REQUEST_INTERVAL],
              sent |-> IF n.command_sender THEN r.sent ELSE <<>>, ok |-> TRUE]

\* process_report_01; the parsed report is part of the input
process_report_01(n, r) ==
    IF ~r.ok THEN [nav |-> n, logs |-> <<>>, ok |-> FALSE]
    ELSE [nav |-> [n EXCEPT !.controls.power = r.status],
          logs |-> <<"debug: report 01">>, ok |-> TRUE]

\* process_report_02, for a receiver that knows its ranges
process_report_02(n, r) ==
    IF ~r.ok THEN [nav |-> n, logs |-> <<>>, ok |-> FALSE]
    ELSE [nav |-> [n EXCEPT !.controls.range = r.range],
          logs |-> <<"trace: report 02">>, ok |-> TRUE]

\* A mutant of process_report_03: an unknown model byte resets the model
Report03Mutant(n, r) ==
    IF ~r.ok THEN [nav |-> n, logs |-> <<>>, ok |-> FALSE]
    ELSE LET n1 == IF r.model = "Unknown"
                   THEN [n EXCEPT !.reported_unknown = @ \cup {r.model_byte},
                                  !.model = "Unknown"]
                   ELSE IF n.model # r.model
                   THEN [n EXCEPT !.model = r.model, !.doppler = (r.model = "HALO")]
                   ELSE n
             l1 == IF r.model = "Unknown"
                   THEN IF r.model_byte \notin n.reported_unknown
                        THEN <<"error: Unknown radar model">> ELSE <<>>
                   ELSE IF n.model # r.model THEN <<"info: Radar is model">> ELSE <<>>
         IN  IF r.model # "Unknown" /\ n.model # r.model /\ ~r.legend_ok
             THEN [nav |-> n1, logs |-> <<"trace: report 03">> \o l1, ok |-> FALSE]
             ELSE [nav |-> [n1 EXCEPT !.controls.operatingHours = r.hours,
                                      !.controls.firmwareVersion = r.firmware_date \o <<" ">> \o r.firmware_time],
                   logs |-> <<"trace: report 03">> \o l1, ok |-> TRUE]

\* process_report_03; legend_ok tells whether data_tx.send succeeds
process_report_03(n, r) ==
    IF ~r.ok THEN [nav |-> n, logs |-> <<>>, ok |-> FALSE]
    ELSE LET n1 == IF r.model = "Unknown"
                   THEN [n EXCEPT !.reported_unknown = @ \cup {r.model_byte}]
                   ELSE IF n.model # r.model
                   THEN [n EXCEPT !.model = r.model, !.doppler = (r.model = "HALO")]
                   ELSE n
             l1 == IF r.model = "Unknown"
                   THEN IF r.model_byte \notin n.reported_unknown
                        THEN <<"error: Unknown radar model">> ELSE <<>>
                   ELSE IF n.model # r.model THEN <<"info: Radar is model">> ELSE <<>>
         IN  IF r.model # "Unknown" /\ n.model # r.model /\ ~r.legend_ok
             THEN [nav |-> n1, logs |-> <<"trace: report 03">> \o l1, ok |-> FALSE]
             ELSE [nav |-> [n1 EXCEPT !.controls.operatingHours = r.hours,
                                      !.controls.firmwareVersion = r.firmware_date \o <<" ">> \o r.firmware_time],
                   logs |-> <<"trace: report 03">> \o l1, ok |-> TRUE]

\* process_report_04
process_report_04(n, r) ==
    IF ~r.ok THEN [nav |-> n, logs |-> <<>>, ok |-> FALSE]
    ELSE [nav |-> [n EXCEPT !.controls.bearingAlignment = r.bearing_alignment],
          logs |-> <<"trace: report 04">>, ok |-> TRUE]

\* process_report_06_68, process_report_06_74 and process_report_08 set
\* controls that the model does not hold
process_report_other(n, r) ==
    IF ~r.ok THEN [nav |-> n, logs |-> <<>>, ok |-> FALSE]
    ELSE [nav |-> n, logs |-> <<"trace: report">>, ok |-> TRUE]

\* process_report on the datagram in report_buf
process_report(n, r) ==
    IF r.len < 2 THEN [nav |-> n, logs |-> <<>>, ok |-> FALSE]
    ELSE IF r.tag # TAG_C4
    THEN IF r.tag = TAG_C6
         THEN IF r.id = 17
              THEN IF r.len # 3 \/ r.third # 0
                   THEN [nav |-> n, logs |-> <<>>, ok |-> FALSE]
                   ELSE [nav |-> n, logs |-> <<>>, ok |-> TRUE]
              ELSE [nav |-> n, logs |-> <<"trace: Unknown report 0xc6">>, ok |-> TRUE]
         ELSE [nav |-> n, logs |-> <<"trace: Unknown report dropped">>, ok |-> TRUE]
    ELSE IF r.id = REPORT_01_C4_18 THEN process_report_01(n, r)
    ELSE IF r.id = REPORT_02_C4_99
    THEN IF n.model # "Unknown" THEN process_report_02(n, r)
         ELSE [nav |-> n, logs |-> <<>>, ok |-> TRUE]
    ELSE IF r.id = REPORT_03_C4_129 THEN process_report_03(n, r)
    ELSE IF r.id = REPORT_04_C4_66 THEN process_report_04(n, r)
    ELSE IF r.id \in {REPORT_06_C4_68, REPORT_08_C4_18_OR_21_OR_22}
    THEN IF n.model # "Unknown" THEN process_report_other(n, r)
         ELSE [nav |-> n, logs |-> <<>>, ok |-> TRUE]
    ELSE IF r.id \notin n.reported_unknown
    THEN [nav |-> [n EXCEPT !.reported_unknown = @ \cup {r.id}],
          logs |-> <<"trace: Unknown report identification">>, ok |-> TRUE]
    ELSE [nav |-> n, logs |-> <<>>, ok |-> TRUE]

\* socket_loop, a datagram received: an error of process_report is logged
ReceiveReport(n, r) ==
    LET x == process_report(n, r)
    IN  [nav |-> x.nav, logs |-> IF x.ok THEN x.logs ELSE Append(x.logs, "error: process_report")]

\* The datagrams of the model: r.ok tells whether the parser of the report
\* accepts it, the fields after it are what the parser returns
NoReport ==
    [len |-> 18, id |-> 0, tag |-> TAG_C4, third |-> 0, ok |-> TRUE, status |-> "Off",
     range |-> 0, model_byte |-> 0, model |-> "Unknown", hours |-> 0,
     firmware_date |-> <<>>, firmware_time |-> <<>>, bearing_alignment |-> 0,
     legend_ok |-> TRUE]

UnknownIds == {5, 7, 9}

Report03(model_byte, model, legend_ok) ==
    [NoReport EXCEPT !.id = REPORT_03_C4_129, !.model_byte = model_byte, !.model = model,
                     !.hours = 7, !.firmware_date = <<"d">>, !.firmware_time = <<"t">>,
                     !.legend_ok = legend_ok]

StatusReport == [NoReport EXCEPT !.id = REPORT_01_C4_18, !.status = "Transmit"]

NavReports ==
    {[NoReport EXCEPT !.len = 1],
     [NoReport EXCEPT !.len = 3, !.id = 17, !.tag = TAG_C6],
     [NoReport EXCEPT !.len = 3, !.id = 17, !.tag = TAG_C6, !.third = 1],
     [NoReport EXCEPT !.id = 5, !.tag = TAG_C6],
     [NoReport EXCEPT !.id = 5, !.tag = 194],
     StatusReport,
     [NoReport EXCEPT !.id = REPORT_01_C4_18, !.ok = FALSE],
     [NoReport EXCEPT !.id = REPORT_02_C4_99, !.range = 500],
     [NoReport EXCEPT !.id = REPORT_03_C4_129, !.ok = FALSE],
     Report03(0, "HALO", TRUE), Report03(0, "HALO", FALSE), Report03(1, "Gen4", TRUE),
     Report03(5, "Unknown", TRUE), Report03(9, "Unknown", TRUE),
     [NoReport EXCEPT !.id = REPORT_04_C4_66, !.bearing_alignment = 3],
     [NoReport EXCEPT !.id = REPORT_06_C4_68],
     [NoReport EXCEPT !.id = REPORT_08_C4_18_OR_21_OR_22]}
    \cup {[NoReport EXCEPT !.id = i] : i \in UnknownIds}

NoStep == [op |-> "none", report |-> NoReport, logs |-> <<>>, sent |-> <<>>, ok |-> TRUE, gap |-> -1]

NavIdle == nav = NavicoReportReceiver_new(TRUE, "Unknown") /\ nlast = NoStep

\* A receiver as the locator creates it
NavInit ==
    /\ \E replay \in BOOLEAN : nav = NavicoReportReceiver_new(replay, "Unknown")
    /\ nlast = NoStep

\* A receiver whose run has opened the report socket
NavListening ==
    /\ \E model \in {"Unknown", "BR24"} :
          nav = [NavicoReportReceiver_new(FALSE, model) EXCEPT !.pc = "running",
                                                               !.report_socket = TRUE,
                                                               !.last_open = 0]
    /\ nlast = NoStep

Later(a, b) == IF a < b THEN b ELSE a

\* run, its first statement
NavRunStart ==
    /\ nav.pc = "new"
    /\ \E ok \in BOOLEAN :
          /\ nav' = [start_report_socket(nav, ok) EXCEPT !.pc = "running",
                                                        !.last_open = nav.now,
                                                        !.open_failed = ~ok]
          /\ nlast' = [NoStep EXCEPT !.op = "open", !.ok = ok]

\* run without a report socket: a sleep, then start_report_socket
NavReopen ==
    /\ nav.pc = "running" /\ ~nav.report_socket
    /\ nav.now + 2 * RETRY_SLEEP <= MaxNow
    /\ \E ok \in BOOLEAN :
          LET n0 == [nav EXCEPT !.now = @ + RETRY_SLEEP]
          IN  /\ nav' = [start_report_socket(n0, ok) EXCEPT !.last_open = n0.now,
                                                           !.open_failed = ~ok]
              /\ nlast' = [NoStep EXCEPT !.op = "open", !.ok = ok,
                                         !.gap = IF nav.open_failed THEN n0.now - nav.last_open ELSE -1]

\* socket_loop, the deadline of the report requests expiring; an error makes
\* socket_loop return and run drop the report socket
NavTimer ==
    /\ nav.pc = "running" /\ nav.report_socket
    /\ Later(nav.now, nav.report_request_timeout) <= MaxNow
    /\ \E start_ok \in BOOLEAN, oks \in [1..3 -> BOOLEAN] :
          LET n0 == [nav EXCEPT !.now = Later(nav.now, nav.report_request_timeout)]
              x == send_report_requests(n0, start_ok, oks)
          IN  /\ nav' = IF x.ok THEN [x.nav EXCEPT !.last_burst = n0.now]
                        ELSE [x.nav EXCEPT !.report_socket = FALSE]
              /\ nlast' = [NoStep EXCEPT !.op = "timer", !.ok = x.ok, !.sent = x.sent,
                                         !.gap = IF nav.last_burst >= 0 THEN n0.now - nav.last_burst ELSE -1]

\* socket_loop, a datagram on the report socket, d milliseconds from now
Received(r, d) ==
    /\ nav.pc = "running" /\ nav.report_socket
    /\ nav.now + d <= Later(nav.now, nav.report_request_timeout) /\ nav.now + d <= MaxNow
    /\ LET x == ReceiveReport([nav EXCEPT !.now = @ + d], r)
       IN  /\ nav' = [x.nav EXCEPT !.seen = IF r.len >= 2 /\ r.tag = TAG_C4 /\ r.id \in UnknownIds
                                            THEN @ \cup {r.id} ELSE @]
           /\ nlast' = [NoStep EXCEPT !.op = "report", !.report = r, !.logs = x.logs]

NavReport == \E r \in NavReports : Received(r, 0)

NavStatusReport == \E d \in {0, RETRY_SLEEP} : Received(StatusReport, d)

\* socket_loop, a receive error on one of its sockets: socket_loop returns
\* the error and run drops the report socket
NavRecvError ==
    /\ nav.pc = "running" /\ nav.report_socket
    /\ nav' = [nav EXCEPT !.report_socket = FALSE]
    /\ nlast' = [NoStep EXCEPT !.op = "error", !.ok = FALSE]

NavRequestShutdown ==
    /\ ~nav.shutdown
    /\ nav' = [nav EXCEPT !.shutdown = TRUE]
    /\ nlast' = NoStep

\* socket_loop, on_shutdown_requested: run returns
NavShutdown ==
    /\ nav.pc = "running" /\ nav.report_socket /\ nav.shutdown
    /\ nav' = [nav EXCEPT !.pc = "returned"]
    /\ nlast' = [NoStep EXCEPT !.op = "shutdown"]

NextNavRun ==
    \/ (NavRunStart /\ UNCHANGED <<rsVars, ctlVars, locVars, provVars, tcpVars, dopVars, fcVars, clockVars>>)
    \/ (NavReopen /\ UNCHANGED <<rsVars, ctlVars, locVars, provVars, tcpVars, dopVars, fcVars, clockVars>>)
    \/ (NavTimer /\ UNCHANGED <<rsVars, ctlVars, locVars, provVars, tcpVars, dopVars, fcVars, clockVars>>)
    \/ (NavStatusReport /\ UNCHANGED <<rsVars, ctlVars, locVars, provVars, tcpVars, dopVars, fcVars, clockVars>>)
    \/ (NavRecvError /\ UNCHANGED <<rsVars, ctlVars, locVars, provVars, tcpVars, dopVars, fcVars, clockVars>>)
    \/ (NavRequestShutdown /\ UNCHANGED <<rsVars, ctlVars, locVars, provVars, tcpVars, dopVars, fcVars, clockVars>>)
    \/ (NavShutdown /\ UNCHANGED <<rsVars, ctlVars, locVars, provVars, tcpVars, dopVars, fcVars, clockVars>>)

NextNavRep ==
    \/ (NavReport /\ UNCHANGED <<rsVars, ctlVars, locVars, provVars, tcpVars, dopVars, fcVars, clockVars>>)

(***************************************************************************)
(* DopplerState                                                            *)
(***************************************************************************)
DopplerStates ==
    {"Any", "NoDoppler", "Approaching", "Receding", "AnyDoppler", "NotReceding",
     "NotApproaching", "AnyPlus"}

\* (n as f64 * 0.85) as u32 and (n as f64 * 0.80) as u32.  The product of a
\* u32 with the double nearest to 0.85 or 0.80 rounds to a double that has
\* the integer part of the exact product, and the cast truncates
Percent85(n) == (n * 85) \div 100
Percent80(n) == (n * 80) \div 100

\* A mutant of transition: the thresholds are met by equality
TransitionMutant(self, total_pix, approaching_pix, receding_pix) ==
    LET check_to_doppler == Percent85(total_pix)
        check_not_approaching == Percent80(total_pix - approaching_pix)
        check_not_receding == Percent80(total_pix - receding_pix)
    IN  IF self \in {"AnyDoppler", "Any"}
        THEN IF approaching_pix > receding_pix /\ approaching_pix >= check_to_doppler
             THEN "Approaching"
             ELSE IF receding_pix > approaching_pix /\ receding_pix >= check_to_doppler
             THEN "Receding"
             ELSE "Any"
        ELSE IF self = "Receding"
        THEN IF receding_pix <= check_not_approaching THEN "Any" ELSE self
        ELSE IF self = "Approaching"
        THEN IF approaching_pix <= check_not_receding THEN "Any" ELSE self
        ELSE self

\* DopplerState::transition, for counts that do not exceed total_pix (the
\* subtractions are on u32)
transition(self, total_pix, approaching_pix, receding_pix) ==
    LET check_to_doppler == Percent85(total_pix)
        check_not_approaching == Percent80(total_pix - approaching_pix)
        check_not_receding == Percent80(total_pix - receding_pix)
    IN  IF self \in {"AnyDoppler", "Any"}
        THEN IF approaching_pix > receding_pix /\ approaching_pix > check_to_doppler
             THEN "Approaching"
             ELSE IF receding_pix > approaching_pix /\ receding_pix > check_to_doppler
             THEN "Receding"
             ELSE IF self = "AnyDoppler" THEN "Any"
             ELSE self
        ELSE IF self = "Receding"
        THEN IF receding_pix < check_not_approaching THEN "Any" ELSE self
        ELSE IF self = "Approaching"
        THEN IF approaching_pix < check_not_receding THEN "Any" ELSE self
        ELSE self

NoRefresh ==
    [self |-> "Any", total_pix |-> 0, approaching_pix |-> 0, receding_pix |-> 0,
     called |-> FALSE, result |-> "Any"]

DopIdle == dop = NoRefresh

\* A target in any state and the pixel counts of its contour
DopInit ==
    \E self \in DopplerStates, total_pix \in 0..MaxPix :
       \E approaching_pix \in 0..total_pix, receding_pix \in 0..total_pix :
          dop = [self |-> self, total_pix |-> total_pix, approaching_pix |-> approaching_pix,
                 receding_pix |-> receding_pix, called |-> FALSE, result |-> self]

DopTransition ==
    /\ ~dop.called
    /\ dop' = [dop EXCEPT !.called = TRUE,
                          !.result = transition(dop.self, dop.total_pix, dop.approaching_pix,
                                                dop.receding_pix)]

NextDop ==
    \/ (DopTransition /\ UNCHANGED <<rsVars, ctlVars, locVars, provVars, tcpVars, navVars, fcVars, clockVars>>)

\* DopplerState::matches_pixel
matches_pixel(self, is_target, is_backup, is_approaching, is_receding) ==
    CASE self = "Any" -> is_target
      [] self = "NoDoppler" -> is_target /\ ~is_approaching /\ ~is_receding
      [] self = "Approaching" -> is_approaching
      [] self = "Receding" -> is_receding
      [] self = "AnyDoppler" -> is_approaching \/ is_receding
      [] self = "NotReceding" -> is_target /\ ~is_receding
      [] self = "NotApproaching" -> is_target /\ ~is_approaching
      [] self = "AnyPlus" -> is_backup

\* A state and the four flags of one pixel of the history array
PixInit ==
    \E self \in DopplerStates, is_target \in BOOLEAN, is_backup \in BOOLEAN :
       \E is_approaching \in BOOLEAN, is_receding \in BOOLEAN :
          dop = [self |-> self, is_target |-> is_target, is_backup |-> is_backup,
                 is_approaching |-> is_approaching, is_receding |-> is_receding,
                 called |-> FALSE, result |-> FALSE]

PixMatch ==
    /\ ~dop.called
    /\ dop' = [dop EXCEPT !.called = TRUE,
                          !.result = matches_pixel(dop.self, dop.is_target, dop.is_backup,
                                                   dop.is_approaching, dop.is_receding)]

NextPix ==
    \/ (PixMatch /\ UNCHANGED <<rsVars, ctlVars, locVars, provVars, tcpVars, navVars, fcVars, clockVars>>)

(***************************************************************************)
(* Furuno protocol: command formatting                                     *)
(***************************************************************************)
\* Display of a non-negative integer in base 10 and of an i32
RECURSIVE ToDec(_)
ToDec(n) == IF n < 10 THEN <<Digits[n + 1]>> ELSE ToDec(n \div 10) \o <<Digits[(n % 10) + 1]>>
FmtI32(n) == IF n < 0 THEN <<"-">> \o ToDec(0 - n) ELSE ToDec(n)

\* {:X} of a u8: upper-case hex digits, no padding
HexDigit(d) == IF d < 10 THEN Digits[d + 1] ELSE HexUpper[d - 9]
FmtHexU8(n) == IF n < 16 THEN <<HexDigit(n)>> ELSE <<HexDigit(n \div 16), HexDigit(n % 16)>>

\* CommandMode::as_char
as_char(mode) == CASE mode = "Set" -> "S" [] mode = "Request" -> "R" [] mode = "New" -> "N"

RECURSIVE FmtArgs(_)
FmtArgs(args) == IF args = <<>> THEN <<>> ELSE <<",">> \o FmtI32(Head(args)) \o FmtArgs(Tail(args))

\* format_command
format_command(mode, id, args) == <<"$", as_char(mode)>> \o FmtHexU8(id) \o FmtArgs(args) \o <<CR, LF>>

format_status_command(transmit) ==
    format_command("Set", CommandId_Status, <<IF transmit THEN 2 ELSE 1, 0, 0, 60, 300, 0>>)

format_range_command(range_index) == format_command("Set", CommandId_Range, <<range_index, 0, 0>>)

\* A mutant of format_gain_command: value before auto
FormatGainMutant(value, auto) ==
    format_command("Set", CommandId_Gain, <<value, IF auto THEN 1 ELSE 0, 0, 80, 0>>)

format_gain_command(value, auto) ==
    format_command("Set", CommandId_Gain, <<IF auto THEN 1 ELSE 0, value, 0, 80, 0>>)

format_sea_command(value, auto) ==
    format_command("Set", CommandId_Sea, <<IF auto THEN 1 ELSE 0, value, 50, 0, 0, 0>>)

format_rain_command(value, auto) ==
    format_command("Set", CommandId_Rain, <<IF auto THEN 1 ELSE 0, value, 0, 0, 0, 0>>)

\* The radar's response to a Set frame: the same frame in mode New
Echo(frame) == <<"$", as_char("New")>> \o SubSeq(frame, 3, Len(frame))

NoCall == [op |-> "none"]
FcIdle == fc = NoCall

\* The documented domain of gain, sea and rain
ControlValues == 0..100

\* One formatter is called and its frame, and the radar's echo of it, are
\* handed to the parser of the same command
Formatted(op, arg, frame, parsed, echoed) ==
    /\ fc = NoCall
    /\ fc' = [op |-> op, arg |-> arg, frame |-> frame, parsed |-> parsed, echoed |-> echoed]

FmtStatus ==
    \E transmit \in BOOLEAN :
       LET frame == format_status_command(transmit)
       IN  Formatted("status", transmit, frame, parse_status_response(frame),
                     parse_status_response(Echo(frame)))

FmtRange ==
    \E i \in 1..Len(RANGE_TABLE) :
       LET frame == format_range_command(RANGE_TABLE[i][1])
       IN  Formatted("range", RANGE_TABLE[i][1], frame, parse_range_response(frame),
                     parse_range_response(Echo(frame)))

FmtGain ==
    \E value \in ControlValues, auto \in BOOLEAN :
       LET frame == format_gain_command(value, auto)
       IN  Formatted("gain", [auto |-> auto, value |-> value], frame,
                     parse_gain_response(frame), parse_gain_response(Echo(frame)))

FmtSea ==
    \E value \in ControlValues, auto \in BOOLEAN :
       LET frame == format_sea_command(value, auto)
       IN  Formatted("sea", [auto |-> auto, value |-> value], frame,
                     parse_sea_response(frame), parse_sea_response(Echo(frame)))

FmtRain ==
    \E value \in ControlValues, auto \in BOOLEAN :
       LET frame == format_rain_command(value, auto)
       IN  Formatted("rain", [auto |-> auto, value |-> value], frame,
                     parse_rain_response(frame), parse_rain_response(Echo(frame)))

NextFmt ==
    \/ (FmtStatus /\ UNCHANGED <<rsVars, ctlVars, locVars, provVars, tcpVars, navVars, dopVars, clockVars>>)
    \/ (FmtRange /\ UNCHANGED <<rsVars, ctlVars, locVars, provVars, tcpVars, navVars, dopVars, clockVars>>)
    \/ (FmtGain /\ UNCHANGED <<rsVars, ctlVars, locVars, provVars, tcpVars, navVars, dopVars, clockVars>>)
    \/ (FmtSea /\ UNCHANGED <<rsVars, ctlVars, locVars, provVars, tcpVars, navVars, dopVars, clockVars>>)
    \/ (FmtRain /\ UNCHANGED <<rsVars, ctlVars, locVars, provVars, tcpVars, navVars, dopVars, clockVars>>)

(***************************************************************************)
(* Furuno protocol: range table lookup                                     *)
(***************************************************************************)
Abs(n) == IF n < 0 THEN 0 - n ELSE n

\* A mutant of meters_to_range_index: the largest range not above meters
MetersToIndexMutant(meters) ==
    LET below == {i \in 1..Len(RANGE_TABLE) : RANGE_TABLE[i][2] <= meters}
    IN  IF below = {} THEN RANGE_TABLE[1][1]
        ELSE RANGE_TABLE[CHOOSE i \in below : \A j \in below : j <= i][1]

\* meters_to_range_index: Iterator::min_by_key returns the first of the
\* entries with the least key; the table is not empty, so the default of
\* unwrap_or is never taken.  (m - meters) stays within i32 for the meters
\* drawn here
meters_to_range_index(meters) ==
    LET key(i) == Abs(RANGE_TABLE[i][2] - meters)
        first  == CHOOSE i \in 1..Len(RANGE_TABLE) :
                     /\ \A j \in 1..Len(RANGE_TABLE) : key(i) <= key(j)
                     /\ \A j \in 1..(i - 1) : key(j) > key(i)
    IN  RANGE_TABLE[first][1]

\* A range in meters is converted to a wire index and the index back
RangeLookup ==
    /\ fc = NoCall
    /\ \E meters \in 0..MaxMeters :
          LET index == meters_to_range_index(meters)
          IN  fc' = [op |-> "meters_to_range_index", meters |-> meters, index |-> index,
                     back |-> range_index_to_meters(index)]

NextRange ==
    \/ (RangeLookup /\ UNCHANGED <<rsVars, ctlVars, locVars, provVars, tcpVars, navVars, dopVars, clockVars>>)

(***************************************************************************)
(* Furuno login                                                            *)
(***************************************************************************)
BASE_PORT == 10000
FURUNO_BASE_PORT == 10000
U16_MAX == 65535

LOGIN_RESPONSE_HEADER == <<9, 1, 0, 12, 1, 0, 0, 0>>

\* An addition of two u16: with overflow checks (a debug build) a sum above
\* u16::MAX panics, without them (a release build) it wraps
AddU16(a, b, overflow_checks) ==
    IF a + b <= U16_MAX THEN [panic |-> FALSE, val |-> a + b]
    ELSE IF overflow_checks THEN [panic |-> TRUE, val |-> 0]
    ELSE [panic |-> FALSE, val |-> (a + b) % (U16_MAX + 1)]

Returned(v) == [panic |-> FALSE, ret |-> v]
Panicked == [panic |-> TRUE, ret |-> None]

\* parse_login_response; data[8] and data[9] of the code are data[9] and
\* data[10] here
parse_login_response(data, overflow_checks) ==
    IF Len(data) < 12 THEN Returned(None)
    ELSE IF SubSeq(data, 1, 8) # LOGIN_RESPONSE_HEADER THEN Returned(None)
    ELSE LET port_offset == data[9] * 256 + data[10]
             sum == AddU16(BASE_PORT, port_offset, overflow_checks)
         IN  IF sum.panic THEN Panicked ELSE Returned(Some(sum.val))

\* login_to_radar of the server: data is what the radar sends before the
\* read timeout; Err is None here and Ok(port) is Some(port)
login_to_radar(replay, connect_ok, data, overflow_checks) ==
    IF replay THEN Returned(Some(0))
    ELSE IF ~connect_ok THEN Returned(None)
    ELSE IF Len(data) < 8 THEN Returned(None)
    ELSE IF SubSeq(data, 1, 8) # LOGIN_RESPONSE_HEADER THEN Returned(None)
    ELSE IF Len(data) < 12 THEN Returned(None)
    ELSE LET high == AddU16(FURUNO_BASE_PORT, data[9] * 256, overflow_checks)
             sum  == AddU16(high.val, data[10], overflow_checks)
         IN  IF high.panic \/ sum.panic THEN Panicked ELSE Returned(Some(sum.val))

\* Responses: the header or one with another first byte, every high byte of
\* the offset, low bytes around the largest offset that fits, and responses
\* cut short or followed by more bytes
HighBytes == 0..255
LowBytes == {0, 1, 239, 240, 255}
Headers == {LOGIN_RESPONSE_HEADER, <<8>> \o Tail(LOGIN_RESPONSE_HEADER)}
LoginResponses ==
    LET full == {h \o <<hi, lo, 0, 0>> : h \in Headers, hi \in HighBytes, lo \in LowBytes}
    IN  full \cup {SubSeq(d, 1, 11) : d \in {f \in full : f[9] \in {0, 216}}}
             \cup {d \o <<0>> : d \in {f \in full : f[9] \in {0, 216}}}

ParseLogin ==
    /\ fc = NoCall
    /\ \E data \in LoginResponses, overflow_checks \in BOOLEAN :
          LET r == parse_login_response(data, overflow_checks)
          IN  fc' = [op |-> "parse_login_response", data |-> data, panic |-> r.panic, ret |-> r.ret]

LoginToRadar ==
    /\ fc = NoCall
    /\ \E data \in LoginResponses, overflow_checks \in BOOLEAN, replay \in BOOLEAN, connect_ok \in BOOLEAN :
          LET r == login_to_radar(replay, connect_ok, data, overflow_checks)
          IN  fc' = [op |-> "login_to_radar", data |-> data, replay |-> replay,
                     connect_ok |-> connect_ok, panic |-> r.panic, ret |-> r.ret]

NextLogin ==
    \/ (ParseLogin /\ UNCHANGED <<rsVars, ctlVars, locVars, provVars, tcpVars, navVars, dopVars, clockVars>>)
    \/ (LoginToRadar /\ UNCHANGED <<rsVars, ctlVars, locVars, provVars, tcpVars, navVars, dopVars, clockVars>>)

(***************************************************************************)
(* Furuno protocol: frames as they may arrive                              *)
(***************************************************************************)
\* Well-formed frames: a mode letter, a command id of one or two hex digits,
\* and integer arguments in base 10
FrameModes == {"S", "R", "N"}
FrameIds == { <<"6", "9">>, <<"E", "3">>, <<"5">> }
IntFields == { <<"0">>, <<"2">>, <<"-", "7">>, <<"3", "0", "0">> }

RECURSIVE IntFieldLists(_)
IntFieldLists(n) ==
    IF n = 0 THEN { <<>> }
    ELSE IntFieldLists(n - 1) \cup
         { <<f>> \o fl : f \in IntFields, fl \in { x \in IntFieldLists(n - 1) : Len(x) = n - 1 } }

RECURSIVE Commas(_)
Commas(k) == IF k = 0 THEN <<>> ELSE <<",">> \o Commas(k - 1)

Terminators == { <<CR, LF>>, <<CR>>, <<LF>>, <<>> }

\* A frame arrives with trailing commas after its arguments, or after its
\* terminator, and with its terminator whole, cut or absent; it and the
\* frame as format_command writes it are given to parse_response
ParseFrame ==
    /\ fc = NoCall
    /\ \E m \in FrameModes, id \in FrameIds, fl \in IntFieldLists(MaxArgs), k \in 0..MaxCommas :
       \E term \in Terminators, after \in BOOLEAN :
          LET content == <<"$", m>> \o id \o JoinArgs(fl)
              frame   == content \o <<CR, LF>>
              arrived == IF after THEN content \o term \o Commas(k)
                         ELSE content \o Commas(k) \o term
          IN  fc' = [op |-> "parse_response", frame |-> frame, arrived |-> arrived,
                     nargs |-> Len(fl), commas |-> k, after |-> after, term |-> term,
                     expected |-> parse_response(frame), parsed |-> parse_response(arrived)]

NextParse ==
    \/ (ParseFrame /\ UNCHANGED <<rsVars, ctlVars, locVars, provVars, tcpVars, navVars, dopVars, clockVars>>)

(***************************************************************************)
(* Raymarine command modules of the server                                 *)
(***************************************************************************)
\* quantum.rs
one_byte_command(lead, value) == lead \o <<40, 0, 0, value, 0, 0>>
two_byte_command(lead, value) == lead \o <<40, 0>> \o LeBytes(value) \o <<0, 0>>

\* rd.rs
standard_command(lead, value) ==
    lead \o <<1, 0, 1, 0, 0, 0, 0, 0, 0, 0, 1, 0, 0, 0, 0, 0, 0, 0, value, 0, 0, 0>>
on_off_command(lead, on_off) ==
    lead \o <<1, 0, 1, 0, 0, 0, 1, 0, 0, 0, 0, 0, 0, 0, on_off, 0, 0, 0, 0, 0, 0, 0>>

\* u32::to_le_bytes of (n as u32), n an i32
LeBytesU32(n) == <<n % 256, (n \div 256) % 256, (n \div 65536) % 256, (n \div 16777216) % 256>>

\* ((value * 10.0) as i16) as u16: the first cast saturates
I16AsU16(tenths) ==
    (IF tenths > 32767 THEN 32767 ELSE IF tenths < -32768 THEN -32768 ELSE tenths) % 65536

\* The wire value of "power": 1 for transmit, 0 otherwise
PowerWire(cv) == IF cv.value = "transmit" THEN 1 ELSE 0

\* The range index: the value itself when it is below the number of ranges,
\* otherwise the position of the first range that is not below it
RECURSIVE FirstAtLeast(_, _)
FirstAtLeast(ranges, value) ==
    IF ranges = <<>> \/ Head(ranges) >= value THEN 0 ELSE 1 + FirstAtLeast(Tail(ranges), value)
RangeIndexOf(ranges, value) ==
    IF value < Len(ranges) THEN value % 256 ELSE FirstAtLeast(ranges, value)

\* A switch frame, and a value frame that follows when the switch says so
Pair(first, more, second) == IF more THEN <<first, second>> ELSE <<first>>

\* Command::send for each frame in turn; an error ends set_control by `?`
RECURSIVE SendEach(_, _)
SendEach(frames, oks) ==
    IF frames = <<>> THEN [result |-> "Ok", frames |-> <<>>]
    ELSE IF ~Head(oks) THEN [result |-> "Err", frames |-> <<Head(frames)>>]
    ELSE LET r == SendEach(Tail(frames), Tail(oks))
         IN  [result |-> r.result, frames |-> <<Head(frames)>> \o r.frames]

\* quantum::set_control: the frames handed to Command::send, in order, and
\* the result; v is Command::scale_100_to_byte(value)
quantum_set_control(cv, value, v, ranges, oks) ==
    LET auto == Bit(cv.auto)
        enabled == Bit(cv.enabled)
    IN  CASE cv.id = "power" -> SendEach(<< <<1, 128, 1, 0, PowerWire(cv), 0, 0, 0>> >>, oks)
          [] cv.id = "range" ->
                SendEach(<< one_byte_command(<<1, 1>>, RangeIndexOf(ranges, value)) >>, oks)
          [] cv.id = "gain" ->
                SendEach(Pair(one_byte_command(<<1, 3>>, auto), auto = 0,
                              one_byte_command(<<2, 131>>, v)), oks)
          [] cv.id = "colorGain" ->
                SendEach(Pair(one_byte_command(<<3, 3>>, auto), auto = 0,
                              one_byte_command(<<4, 3>>, v)), oks)
          [] cv.id = "sea" ->
                SendEach(Pair(one_byte_command(<<5, 3>>, auto), auto = 0,
                              one_byte_command(<<6, 3>>, v)), oks)
          [] cv.id = "rain" ->
                SendEach(Pair(one_byte_command(<<11, 3>>, enabled), enabled > 0,
                              one_byte_command(<<12, 3>>, v)), oks)
          [] cv.id = "targetExpansion" -> SendEach(<< one_byte_command(<<15, 3>>, v) >>, oks)
          [] cv.id = "interferenceRejection" -> SendEach(<< one_byte_command(<<17, 3>>, v) >>, oks)
          [] cv.id = "mode" -> SendEach(<< one_byte_command(<<20, 3>>, v) >>, oks)
          [] cv.id = "bearingAlignment" ->
                SendEach(<< two_byte_command(<<1, 4>>, I16AsU16(value * 10)) >>, oks)
          [] cv.id \in {"mainBangSuppression", "noTransmitStart1", "noTransmitStart2",
                        "noTransmitEnd1", "noTransmitEnd2"} ->
                [result |-> "panic", frames |-> <<>>]
          [] OTHER -> [result |-> "CannotSetControlType", frames |-> <<>>]

\* rd::set_control
rd_set_control(cv, value, v, ranges, oks) ==
    LET auto == Bit(cv.auto)
    IN  CASE cv.id = "power" -> SendEach(<< <<1, 128, 1, 0, PowerWire(cv), 0, 0, 0>> >>, oks)
          [] cv.id = "range" ->
                SendEach(<< <<1, 129, 1, 0, 1, 0, 0, 0, RangeIndexOf(ranges, value), 0, 0, 0>> >>, oks)
          [] cv.id = "bearingAlignment" ->
                SendEach(<< <<7, 130, 1, 0>> \o LeBytesU32(value * 10) >>, oks)
          [] cv.id = "gain" ->
                SendEach(Pair(on_off_command(<<1, 131>>, auto), auto = 0,
                              standard_command(<<1, 131>>, v)), oks)
          [] cv.id = "sea" ->
                SendEach(Pair(on_off_command(<<2, 131>>, auto), auto = 0,
                              standard_command(<<2, 131>>, v)), oks)
          [] cv.id = "rain" ->
                SendEach(Pair(on_off_command(<<3, 131>>, auto), auto = 0,
                              standard_command(<<3, 131>>, v)), oks)
          [] cv.id = "ftc" ->
                SendEach(Pair(on_off_command(<<4, 131>>, 1 - auto), 1 - auto = 1,
                              standard_command(<<4, 131>>, v)), oks)
          [] cv.id = "mainBangSuppression" ->
                SendEach(<< standard_command(<<1, 130>>, 1 - auto) >>, oks)
          [] cv.id = "displayTiming" ->
                SendEach(<< <<2, 130, 1, 0, 1, 0, 0, 0, v, 0, 0, 0>> >>, oks)
          [] cv.id = "interferenceRejection" ->
                SendEach(<< <<7, 131, 1, 0, v, 0, 0, 0>> >>, oks)
          [] OTHER -> [result |-> "CannotSetControlType", frames |-> <<>>]

\* Control values as the server hands them to set_control
ControlIds ==
    {"power", "range", "gain", "colorGain", "sea", "rain", "targetExpansion",
     "interferenceRejection", "mode", "bearingAlignment", "mainBangSuppression",
     "noTransmitStart1", "ftc", "displayTiming", "userName"}
ControlValueOf(id, flag) ==
    [id |-> id, value |-> IF flag THEN "transmit" ELSE "standby", auto |-> flag, enabled |-> flag]
ControlNumbers == {-1, 0, 3, 50, 4000}
ScaledBytes == {0, 127, 255}
RangeLists == {<<>>, <<231, 463, 926, 1852>>}
TwoSends == {<<TRUE, TRUE>>, <<TRUE, FALSE>>, <<FALSE, TRUE>>}

RayServerSet ==
    /\ fc = NoCall
    /\ \E variant \in Variants, id \in ControlIds, flag \in BOOLEAN, value \in ControlNumbers :
       \E v \in ScaledBytes, ranges \in RangeLists, oks \in TwoSends :
          LET cv == ControlValueOf(id, flag)
              r  == IF variant = "Quantum" THEN quantum_set_control(cv, value, v, ranges, oks)
                    ELSE rd_set_control(cv, value, v, ranges, oks)
          IN  fc' = [op |-> "server", variant |-> variant, id |-> id, flag |-> flag,
                     result |-> r.result, frames |-> r.frames]

\* The setters of the core controller, for each variant
RayCoreSet ==
    /\ fc = NoCall
    /\ \E variant \in Variants, rq \in Requests :
          fc' = [op |-> "core", variant |-> variant, id |-> rq.name, flag |-> rq.flag,
                 result |-> "Ok",
                 frames |-> SetterFrames(RaymarineController_new("r", "a", 1, "a", 1, variant, FALSE), rq)]

NextRay ==
    \/ (RayServerSet /\ UNCHANGED <<rsVars, ctlVars, locVars, provVars, tcpVars, navVars, dopVars, clockVars>>)
    \/ (RayCoreSet /\ UNCHANGED <<rsVars, ctlVars, locVars, provVars, tcpVars, navVars, dopVars, clockVars>>)

(***************************************************************************)
(* Furuno command sender of mayara-lib                                     *)
(***************************************************************************)
CommandId_CustomPictureAll == 102
CommandId_BlindSector == 119
CommandId_AntennaHeight == 132
CommandId_AntennaRevolution == 137

format_request_picture_all == format_command("Request", CommandId_CustomPictureAll, <<>>)

\* Command::send_with_commas: the bytes handed to write_all
send_with_commas(cm, id, args, commas) ==
    <<"$", as_char(cm)>> \o FmtHexU8(id) \o FmtArgs(args) \o Commas(commas)
        \o (IF commas = 0 THEN <<CR>> ELSE <<>>) \o <<LF>>

\* Command::get_angle_value
get_angle_value(controls, ct) == IF controls[ct].some THEN controls[ct].val ELSE 0

\* Command::fill_blind_sector
fill_blind_sector(controls, sector1_start, sector1_end, sector2_start, sector2_end) ==
    << IF sector1_start.some THEN sector1_start.val ELSE get_angle_value(controls, "NoTransmitStart1"),
       IF sector1_end.some THEN sector1_end.val ELSE get_angle_value(controls, "NoTransmitEnd1"),
       IF sector2_start.some THEN sector2_start.val ELSE get_angle_value(controls, "NoTransmitStart2"),
       IF sector2_end.some THEN sector2_end.val ELSE get_angle_value(controls, "NoTransmitEnd2") >>

\* write_all for each message in turn; an error ends set_control by `?`
RECURSIVE WriteEach(_, _)
WriteEach(messages, oks) ==
    IF messages = <<>> THEN [result |-> "Ok", written |-> <<>>]
    ELSE IF ~Head(oks) THEN [result |-> "Io", written |-> <<>>]
    ELSE LET r == WriteEach(Tail(messages), Tail(oks))
         IN  [result |-> r.result, written |-> <<Head(messages)>> \o r.written]

\* Command::set_control of mayara-lib.  cv.value is parsed as f32 and cast
\* to i32: of the values drawn here a decimal integer gives itself and a
\* word does not parse.  is_transmit is what Status::from_str makes of
\* cv.value
furuno_set_control(cmd, cv, is_transmit, oks) ==
    LET parsed == ParseI32(cv.value)
        value  == parsed.val
        range_index == IF value < Len(cmd.ranges) THEN value ELSE FirstAtLeast(cmd.ranges, value)
        blind(args) == send_with_commas("Set", CommandId_BlindSector, args, 0)
        after(message) == WriteEach(<<message, format_request_picture_all>>, oks)
    IN  IF ~parsed.some THEN [result |-> "MissingValue", written |-> <<>>]
        ELSE CASE cv.id = "Status" -> after(format_status_command(is_transmit))
               [] cv.id = "Gain" -> after(format_gain_command(value, cv.auto))
               [] cv.id = "Sea" -> after(format_sea_command(value, cv.auto))
               [] cv.id = "Rain" -> after(format_rain_command(value, cv.auto))
               [] cv.id = "Range" -> after(format_range_command(range_index))
               [] cv.id = "NoTransmitStart1" ->
                     after(blind(fill_blind_sector(cmd.controls, Some(value), None, None, None)))
               [] cv.id = "NoTransmitEnd1" ->
                     after(blind(fill_blind_sector(cmd.controls, None, Some(value), None, None)))
               [] cv.id = "NoTransmitStart2" ->
                     after(blind(fill_blind_sector(cmd.controls, None, None, Some(value), None)))
               [] cv.id = "NoTransmitEnd2" ->
                     after(blind(fill_blind_sector(cmd.controls, None, None, None, Some(value))))
               [] cv.id = "ScanSpeed" ->
                     after(send_with_commas("Set", CommandId_AntennaRevolution, <<>>, 0))
               [] cv.id = "AntennaHeight" ->
                     after(send_with_commas("Set", CommandId_AntennaHeight, <<>>, 0))
               [] OTHER -> [result |-> "CannotSetControlType", written |-> <<>>]

\* The sender of a radar with four ranges and either no stored sector angles
\* or all four
SectorTypes == {"NoTransmitStart1", "NoTransmitEnd1", "NoTransmitStart2", "NoTransmitEnd2"}
ControlTypes ==
    {"Status", "Gain", "Sea", "Rain", "Range", "ScanSpeed", "AntennaHeight",
     "BearingAlignment", "UserName"} \cup SectorTypes
Senders ==
    { [ranges |-> <<231, 463, 926, 1852>>, controls |-> [ct \in SectorTypes |-> a]] :
        a \in {None, Some(90)} }
ControlTexts == { <<"0">>, <<"2">>, <<"5", "0">>, <<"9", "2", "6">>, <<"t", "r", "a", "n", "s", "m", "i", "t">> }

FurunoSetControl ==
    /\ fc = NoCall
    /\ \E cmd \in Senders, id \in ControlTypes, text \in ControlTexts, auto \in BOOLEAN :
       \E is_transmit \in BOOLEAN, oks \in TwoSends :
          LET r == furuno_set_control(cmd, [id |-> id, value |-> text, auto |-> auto], is_transmit, oks)
          IN  fc' = [op |-> "furuno_set_control", id |-> id, value |-> text, auto |-> auto,
                     is_transmit |-> is_transmit, ranges |-> cmd.ranges, write_ok |-> Head(oks),
                     result |-> r.result, written |-> r.written]

NextSender ==
    \/ (FurunoSetControl /\ UNCHANGED <<rsVars, ctlVars, locVars, provVars, tcpVars, navVars, dopVars, clockVars>>)

\* A direct call of udp_recv_from with any handle: open, closed or never made
RecvProbe ==
    /\ fc = NoCall
    /\ \E h \in 0..(MaxHandles + 1) :
          LET r == udp_recv_from(io, h)
          IN  /\ io' = r.io
              /\ fc' = [op |-> "udp_recv_from", handle |-> h, open |-> IsOpen(io, h),
                        pending |-> IF IsOpen(io, h) THEN io.socks[h].rxq ELSE <<>>,
                        ret |-> r.ret]
    /\ UNCHANGED <<ctl, wire, last>>

NextRecv ==
    \/ (CtlPoll /\ UNCHANGED <<sideVars, rsVars, locVars, provVars>>)
    \/ (CtlShutdown /\ UNCHANGED <<sideVars, rsVars, locVars, provVars>>)
    \/ (ReportArrives /\ UNCHANGED <<sideVars, rsVars, locVars, provVars>>)
    \/ (RecvProbe /\ UNCHANGED <<rsVars, locVars, provVars, tcpVars, navVars, dopVars, clockVars>>)

(***************************************************************************)
(* The locator under a host whose clock advances                           *)
(***************************************************************************)
\* Time passes on the host; nothing in the repository writes
\* RadarLocator::current_time_ms
HostTick ==
    /\ clock.now < MaxTime
    /\ clock' = [clock EXCEPT !.now = @ + 1]
    /\ UNCHANGED <<locVars, wire>>

\* One call of RadarLocator::poll at the time the host's clock shows
SeenPoll ==
    /\ loc.poll_count < MaxLocPolls
    /\ PollLocator
    /\ clock' = [clock EXCEPT !.polled_at = clock.now]

NextSeen ==
    \/ (LocStart /\ UNCHANGED <<sideVars, rsVars, io, ctl, last, provVars>>)
    \/ (LocArrive /\ UNCHANGED <<sideVars, rsVars, io, ctl, last, provVars>>)
    \/ (SeenPoll /\ UNCHANGED <<tcpVars, navVars, dopVars, fcVars, rsVars, io, ctl, last, provVars>>)
    \/ (HostTick /\ UNCHANGED <<tcpVars, navVars, dopVars, fcVars, rsVars, io, ctl, last, provVars>>)
    \/ (LocShutdown /\ UNCHANGED <<sideVars, rsVars, io, ctl, last, provVars>>)

(***************************************************************************)
(* The frames of set_power and set_range side by side                      *)
(***************************************************************************)
\* range_index: u8
RangeIndexValues == 0..255

\* The frame set_range hands to send_command for a range index, and the two
\* frames of set_power, for one controller
FramesOf(variant, range_index) ==
    LET c == RaymarineController_new(<<"R">>, <<"4">>, 2575, <<"4">>, 2574, variant, FALSE)
    IN  [op |-> "frames", variant |-> variant, range_index |-> range_index,
         range |-> SetRangeFrames(c, range_index),
         transmit |-> SetPowerFrames(c, TRUE),
         standby |-> SetPowerFrames(c, FALSE)]

PowerAndRange ==
    /\ fc = NoCall
    /\ \E variant \in Variants, range_index \in RangeIndexValues :
          fc' = FramesOf(variant, range_index)

NextFrames ==
    \/ (PowerAndRange /\ UNCHANGED <<rsVars, ctlVars, locVars, provVars, tcpVars, navVars, dopVars, clockVars>>)

(***************************************************************************)
(* NavicoReportReceiver: range detection                                   *)
(***************************************************************************)
\* What RangeDetection::found_range answers
FoundRangeResults == {"NoRange", "Complete", "NextRange"}

\* What Command::set_control answers to send_status(Standby), send_range and
\* send_status(Transmit)
SendAnswers == [standby : BOOLEAN, range : BOOLEAN, transmit : BOOLEAN]

\* The fields of the receiver that range detection uses: info.ranges is
\* empty or not, info.range_detection is Some or None.  radar_power is the
\* state of the radar itself, standby_by_detection tells that the receiver
\* put it into standby, send_failed that a send has failed so far, tried
\* counts the ranges the detection has asked the radar for
DetectionFields ==
    [ranges_known |-> FALSE, range_detection |-> FALSE,
     transmit_after_range_detection |-> FALSE,
     radar_power |-> "Transmit", standby_by_detection |-> FALSE, send_failed |-> FALSE,
     tried |-> 0]

\* The first part of process_range: a receiver without ranges starts a
\* range detection and puts a transmitting radar into standby first
StartDetection(n, oks) ==
    IF ~n.ranges_known /\ ~n.range_detection /\ ~n.replay
    THEN IF n.controls.power = "unset" THEN [nav |-> n, sent |-> <<>>, ok |-> TRUE, done |-> TRUE]
         ELSE IF n.controls.power = "Transmit"
         THEN IF ~oks.standby THEN [nav |-> n, sent |-> <<>>, ok |-> FALSE, done |-> TRUE]
              ELSE [nav |-> [n EXCEPT !.transmit_after_range_detection = TRUE,
                                      !.range_detection = TRUE],
                    sent |-> <<"standby">>, ok |-> TRUE, done |-> FALSE]
         ELSE [nav |-> [n EXCEPT !.range_detection = TRUE], sent |-> <<>>, ok |-> TRUE,
               done |-> FALSE]
    ELSE [nav |-> n, sent |-> <<>>, ok |-> TRUE, done |-> FALSE]

\* NavicoReportReceiver::process_range: found is the answer of found_range,
\* oks the answers of the command sender; sent are the commands that left
process_range(n, found, oks) ==
    LET s == StartDetection(n, oks)
        m == s.nav
    IN  IF s.done \/ ~m.range_detection \/ found = "NoRange"
        THEN [nav |-> m, sent |-> s.sent, ok |-> s.ok]
        ELSE IF found = "NextRange"
        THEN [nav |-> [m EXCEPT !.tried = @ + 1],
              sent |-> s.sent \o (IF oks.range THEN <<"range">> ELSE <<>>),
              ok |-> oks.range]
        ELSE LET c == [m EXCEPT !.ranges_known = TRUE, !.range_detection = FALSE]
             IN  IF ~oks.range THEN [nav |-> c, sent |-> s.sent, ok |-> FALSE]
                 ELSE IF ~c.transmit_after_range_detection
                 THEN [nav |-> c, sent |-> s.sent \o <<"range">>, ok |-> TRUE]
                 ELSE [nav |-> [c EXCEPT !.transmit_after_range_detection = FALSE],
                       sent |-> s.sent \o <<"range">>
                                \o (IF oks.transmit THEN <<"transmit">> ELSE <<>>),
                       ok |-> oks.transmit]

\* The radar obeys the commands that left, in their order
RECURSIVE RadarObeys(_, _)
RadarObeys(n, sent) ==
    IF sent = <<>> THEN n
    ELSE RadarObeys(
             CASE Head(sent) = "standby" ->
                     [n EXCEPT !.radar_power = "Standby", !.standby_by_detection = TRUE]
               [] Head(sent) = "transmit" ->
                     [n EXCEPT !.radar_power = "Transmit", !.standby_by_detection = FALSE]
               [] OTHER -> n,
             Tail(sent))

\* A receiver in socket_loop that has no ranges yet, with its radar
DetectInit ==
    /\ \E power \in {"Transmit", "Standby"} :
          nav = [DetectionFields EXCEPT !.radar_power = power]
                @@ [NavicoReportReceiver_new(FALSE, "HALO") EXCEPT !.pc = "running",
                                                                  !.report_socket = TRUE]
    /\ nlast = NoStep

\* Report 01 arrives: the status of the radar
DetectStatus ==
    /\ nav.controls.power # nav.radar_power
    /\ LET x == process_report_01(nav, [StatusReport EXCEPT !.status = nav.radar_power])
       IN  /\ nav' = x.nav
           /\ nlast' = [NoStep EXCEPT !.op = "report"]

\* Report 02 arrives: process_report_02 ends with process_range; an error is
\* logged by socket_loop and the loop goes on
DetectRange ==
    \E found \in FoundRangeResults, oks \in SendAnswers :
       LET x == process_range(nav, found, oks)
       IN  /\ found = "NextRange" => nav.tried < MaxDetectRanges
           /\ nav' = [RadarObeys(x.nav, x.sent) EXCEPT !.send_failed = @ \/ ~x.ok]
           /\ nlast' = [NoStep EXCEPT !.op = "range", !.sent = x.sent, !.ok = x.ok]

NextDetect ==
    \/ (DetectStatus /\ UNCHANGED <<rsVars, ctlVars, locVars, provVars, tcpVars, dopVars, fcVars, clockVars>>)
    \/ (DetectRange /\ UNCHANGED <<rsVars, ctlVars, locVars, provVars, tcpVars, dopVars, fcVars, clockVars>>)

(***************************************************************************)
(* Furuno process_discovery                                                *)
(***************************************************************************)
\* The radars whose beacons arrive, by RadarInfo::key()
DiscoveryKeys == {"Furuno-A", "Furuno-B"}

\* What a radar answers to the login: a session port that fits, one that
\* does not, another header, a response cut short
DiscoveryResponses ==
    {LOGIN_RESPONSE_HEADER \o <<0, 1, 0, 0>>, LOGIN_RESPONSE_HEADER \o <<255, 255, 0, 0>>,
     <<8>> \o Tail(LOGIN_RESPONSE_HEADER) \o <<0, 1, 0, 0>>, SubSeq(LOGIN_RESPONSE_HEADER, 1, 4)}

\* SharedRadars::located: None for a key that is registered, else the key is
\* registered and the info comes back
located(radars, key) ==
    IF key \in radars THEN [radars |-> radars, info |-> None]
    ELSE [radars |-> radars \cup {key}, info |-> Some(key)]

\* SharedRadars::remove
remove(radars, key) == radars \ {key}

\* What one call of process_discovery leaves: the registry, the subsystems
\* started in order, whether login_to_radar was called, and how the call ended
Discovered(radars, started, login, result) == [radars |-> radars, started |-> started, login |-> login, result |-> result]

\* process_discovery that leaves the radar registered when the login fails
ProcessDiscoveryMutant(radars, key, replay, output, connect_ok, data, overflow_checks) ==
    LET l == located(radars, key)
        p == login_to_radar(replay, connect_ok, data, overflow_checks)
        stdout == IF output THEN <<"stdout">> ELSE <<>>
    IN  IF l.info = None THEN Discovered(radars, <<>>, FALSE, "Ok")
        ELSE IF replay THEN Discovered(l.radars, stdout \o <<"data">>, FALSE, "Ok")
        ELSE IF p.panic THEN Discovered(l.radars, <<>>, TRUE, "panic")
        ELSE IF p.ret = None THEN Discovered(l.radars, <<>>, TRUE, "Err")
        ELSE Discovered(l.radars, stdout \o <<"data", "reports">>, TRUE, "Ok")

process_discovery(radars, key, replay, output, connect_ok, data, overflow_checks) ==
    LET l == located(radars, key)
        p == login_to_radar(replay, connect_ok, data, overflow_checks)
        stdout == IF output THEN <<"stdout">> ELSE <<>>
    IN  IF l.info = None THEN Discovered(radars, <<>>, FALSE, "Ok")
        ELSE IF replay THEN Discovered(l.radars, stdout \o <<"data">>, FALSE, "Ok")
        ELSE IF p.panic THEN Discovered(l.radars, <<>>, TRUE, "panic")
        ELSE IF p.ret = None THEN Discovered(remove(l.radars, key), <<>>, TRUE, "Err")
        ELSE Discovered(l.radars, stdout \o <<"data", "reports">>, TRUE, "Ok")

\* The locator before its first beacon: args.replay and args.output are fixed
\* for the run; running counts the receivers started per radar and failed
\* holds the radars whose login has failed
DiscoveryInit ==
    \E replay \in BOOLEAN, output \in BOOLEAN :
        fc = [op |-> "discovery", replay |-> replay, output |-> output, radars |-> {},
              running |-> [k \in DiscoveryKeys |-> 0], failed |-> {}, beacons |-> 0,
              key |-> "", known |-> FALSE, login |-> FALSE, result |-> "Ok", started |-> <<>>]

\* One beacon: a panic ends the task that calls process_discovery
ProcessDiscovery ==
    /\ fc.op = "discovery" /\ fc.result # "panic" /\ fc.beacons < MaxBeacons
    /\ \E key \in DiscoveryKeys, connect_ok \in BOOLEAN, data \in DiscoveryResponses, overflow_checks \in BOOLEAN :
          \E r \in {process_discovery(fc.radars, key, fc.replay, fc.output, connect_ok, data, overflow_checks)} :
              fc' = [fc EXCEPT !.radars = r.radars, !.beacons = @ + 1, !.key = key,
                               !.known = key \in fc.radars, !.login = r.login,
                               !.result = r.result, !.started = r.started,
                               !.failed = IF r.result = "Err" THEN @ \cup {key} ELSE @,
                               !.running[key] = @ + (IF r.started # <<>> THEN 1 ELSE 0)]

NextDiscovery ==
    \/ (ProcessDiscovery /\ UNCHANGED <<rsVars, ctlVars, locVars, provVars, tcpVars, navVars, dopVars, clockVars>>)

(***************************************************************************)
(* DopplerState over refreshes, for every u32 count                        *)
(***************************************************************************)
\* A u32 is held as the 32-bit pattern read as a signed integer: a value of
\* 2^31 or more is the negative number 2^32 below it.
\* a - b on u32: with overflow checks a negative difference panics, without
\* them it wraps
SubU32(a, b, overflow_checks) ==
    IF a >= b THEN [panic |-> FALSE, val |-> a - b]
    ELSE IF overflow_checks THEN [panic |-> TRUE, val |-> 0]
    ELSE [panic |-> FALSE, val |-> a - b]

\* a < b on u32
LtU32(a, b) == IF (a >= 0) = (b >= 0) THEN a < b ELSE a >= 0

\* (n as f64 * 0.80) as u32 for a u32 n; for the pattern n < 0 the value is
\* 2^32 + n, and 4 * 2^32 = 5 * 3435973836 + 4
Percent80U32(n) == IF n >= 0 THEN Percent80(n) ELSE -858993460 - ((4 * (-n)) \div 5)

\* A mutant of transition: a target that leaves Receding or Approaching is
\* classified again at once
RefreshMutant(self, total_pix, approaching_pix, receding_pix, overflow_checks) ==
    LET check_to_doppler == Percent85(total_pix)
        not_approaching == SubU32(total_pix, approaching_pix, overflow_checks)
        not_receding == SubU32(total_pix, receding_pix, overflow_checks)
        check_not_approaching == Percent80U32(not_approaching.val)
        check_not_receding == Percent80U32(not_receding.val)
        classified == IF approaching_pix > receding_pix /\ approaching_pix > check_to_doppler
                      THEN "Approaching"
                      ELSE IF receding_pix > approaching_pix /\ receding_pix > check_to_doppler
                      THEN "Receding"
                      ELSE "Any"
    IN  IF not_approaching.panic \/ not_receding.panic THEN Panicked
        ELSE IF self \in {"AnyDoppler", "Any"} THEN Returned(classified)
        ELSE IF self = "Receding"
        THEN IF LtU32(receding_pix, check_not_approaching) THEN Returned(classified) ELSE Returned(self)
        ELSE IF self = "Approaching"
        THEN IF LtU32(approaching_pix, check_not_receding) THEN Returned(classified) ELSE Returned(self)
        ELSE Returned(self)

\* DopplerState::transition with the u32 subtractions of its first lines as
\* the build makes them
refresh(self, total_pix, approaching_pix, receding_pix, overflow_checks) ==
    LET check_to_doppler == Percent85(total_pix)
        not_approaching == SubU32(total_pix, approaching_pix, overflow_checks)
        not_receding == SubU32(total_pix, receding_pix, overflow_checks)
        check_not_approaching == Percent80U32(not_approaching.val)
        check_not_receding == Percent80U32(not_receding.val)
    IN  IF not_approaching.panic \/ not_receding.panic THEN Panicked
        ELSE IF self \in {"AnyDoppler", "Any"}
        THEN IF approaching_pix > receding_pix /\ approaching_pix > check_to_doppler
             THEN Returned("Approaching")
             ELSE IF receding_pix > approaching_pix /\ receding_pix > check_to_doppler
             THEN Returned("Receding")
             ELSE IF self = "AnyDoppler" THEN Returned("Any")
             ELSE Returned(self)
        ELSE IF self = "Receding"
        THEN IF LtU32(receding_pix, check_not_approaching) THEN Returned("Any") ELSE Returned(self)
        ELSE IF self = "Approaching"
        THEN IF LtU32(approaching_pix, check_not_receding) THEN Returned("Any") ELSE Returned(self)
        ELSE Returned(self)

\* The counts of a refresh: contours of no pixel, of 14 and of MaxPix pixels,
\* with counts below, at and above the thresholds and above total_pix
TrackTotals == {0, 14, MaxPix}
TrackCounts == {0, 2, 12, 17, 18, MaxPix + 1}

\* A target in the default state
TrackInit == dop = NoRefresh @@ [panic |-> FALSE]

\* One refresh of the target: self is the state before it and result the
\* state after it; a panic ends the refreshes
TrackRefresh ==
    /\ ~dop.panic
    /\ \E total_pix \in TrackTotals, approaching_pix \in TrackCounts, receding_pix \in TrackCounts, overflow_checks \in BOOLEAN :
          \E r \in {refresh(dop.result, total_pix, approaching_pix, receding_pix, overflow_checks)} :
              dop' = [self |-> dop.result, total_pix |-> total_pix, approaching_pix |-> approaching_pix,
                      receding_pix |-> receding_pix, called |-> TRUE,
                      result |-> IF r.panic THEN dop.result ELSE r.ret, panic |-> r.panic]

NextTrack ==
    \/ (TrackRefresh /\ UNCHANGED <<rsVars, ctlVars, locVars, provVars, tcpVars, navVars, fcVars, clockVars>>)

(***************************************************************************)
(* The installation config written and read back                           *)
(***************************************************************************)
\* deserialize_antenna_height: value is the Option<serde_json::Value> of the
\* field; None in ok stands for Err.  The numbers of the model are integers,
\* which as_i64 answers
deserialize_antenna_height(value) ==
    IF ~value.some THEN [ok |-> TRUE, height |-> None]
    ELSE IF value.val.kind = "null" THEN [ok |-> TRUE, height |-> None]
    ELSE IF value.val.kind = "number"
    THEN LET i == value.val.n
             meters == CASE i = 0 -> 2
                         [] i = 1 -> 5
                         [] i = 2 -> 15
                         [] OTHER -> IF i < 0 THEN 0 ELSE IF i > 100 THEN 100 ELSE i
         IN  [ok |-> TRUE, height |-> Some(meters)]
    ELSE [ok |-> FALSE, height |-> None]

\* save_config: serde_json::to_string of the radars of the config; a field
\* that is None is skipped and an i32 is written as a JSON integer
save_config(radars) ==
    [id \in DOMAIN radars |->
        [antennaHeight |-> IF radars[id].antenna_height.some
                           THEN Some(JNum(radars[id].antenna_height.val)) ELSE None,
         bearingAlignment |-> IF radars[id].bearing_alignment.some
                              THEN Some(JNum(radars[id].bearing_alignment.val)) ELSE None]]

\* load_config: serde_json::from_str of the document; a field that fails to
\* deserialize makes the whole config the default one
load_config(doc) ==
    IF \E id \in DOMAIN doc : ~deserialize_antenna_height(doc[id].antennaHeight).ok THEN <<>>
    ELSE [id \in DOMAIN doc |->
             [bearing_alignment |-> IF doc[id].bearingAlignment.some
                                    THEN as_f64(doc[id].bearingAlignment.val) ELSE None,
              antenna_height |-> deserialize_antenna_height(doc[id].antennaHeight).height]]

\* The heights asked for: every accepted one and the first rejected ones
HeightInputs == -1..101

\* A provider with the controller of one Furuno radar and an empty config
HeightProvider ==
    [RadarProvider_new EXCEPT !.furuno_controllers = (RadarStateId(FurunoA) :> NewController(FurunoA))]

\* set_control_v5 of antennaHeight on that provider, and a load_config of
\* what it has written
SaveLoad ==
    /\ fc = NoCall
    /\ \E meters \in HeightInputs, save_ok \in BOOLEAN :
          \E r \in {furuno_set_extended_control(HeightProvider, RadarLocator_new, RadarStateId(FurunoA),
                                                "antennaHeight", JNum(meters), save_ok)} :
              LET loaded == load_config(save_config(r.prov.stored))
              IN  fc' = [op |-> "save_load", meters |-> meters, result |-> r.result,
                         persisted |-> RadarStateId(FurunoA) \in DOMAIN r.prov.stored,
                         loaded |-> IF RadarStateId(FurunoA) \in DOMAIN loaded
                                    THEN loaded[RadarStateId(FurunoA)].antenna_height ELSE None]

NextSaveLoad ==
    \/ (SaveLoad /\ UNCHANGED <<rsVars, ctlVars, locVars, provVars, tcpVars, navVars, dopVars, clockVars>>)

(***************************************************************************)
(* Specifications                                                          *)
(***************************************************************************)
InitState == RsInit /\ CtlIdle /\ LocInit /\ ProvIdle /\ TcpIdle /\ NavIdle /\ DopIdle /\ FcIdle /\ ClockIdle

SpecState == InitState /\ [][NextState]_vars

InitCtl == RsInit /\ CtlInit /\ LocInit /\ ProvIdle /\ TcpIdle /\ NavIdle /\ DopIdle /\ FcIdle /\ ClockIdle

SpecCtl == InitCtl /\ [][NextCtl]_vars

InitLoc == RsInit /\ CtlIdle /\ LocInit /\ ProvIdle /\ TcpIdle /\ NavIdle /\ DopIdle /\ FcIdle /\ ClockIdle

SpecLoc == InitLoc /\ [][NextLoc]_vars

InitAnn == RsInit /\ CtlIdle /\ LocInit /\ ProvIdle /\ TcpIdle /\ NavIdle /\ DopIdle /\ FcIdle /\ ClockIdle

SpecAnn == InitAnn /\ [][NextAnn]_vars

InitTcp == RsInit /\ CtlIdle /\ LocInit /\ ProvIdle /\ TcpIdle /\ NavIdle /\ DopIdle /\ FcIdle /\ ClockIdle

SpecTcp == InitTcp /\ [][NextTcp]_vars

InitExt == RsInit /\ ExtInit /\ TcpIdle /\ NavIdle /\ DopIdle /\ FcIdle /\ ClockIdle

SpecExt == InitExt /\ [][NextExt]_vars

InitNavRun == RsInit /\ CtlIdle /\ LocInit /\ ProvIdle /\ TcpIdle /\ NavInit /\ DopIdle /\ FcIdle /\ ClockIdle

SpecNavRun == InitNavRun /\ [][NextNavRun]_vars

InitNavRep == RsInit /\ CtlIdle /\ LocInit /\ ProvIdle /\ TcpIdle /\ NavListening /\ DopIdle /\ FcIdle /\ ClockIdle

SpecNavRep == InitNavRep /\ [][NextNavRep]_vars

InitDop == RsInit /\ CtlIdle /\ LocInit /\ ProvIdle /\ TcpIdle /\ NavIdle /\ DopInit /\ FcIdle /\ ClockIdle

SpecDop == InitDop /\ [][NextDop]_vars

InitPix == RsInit /\ CtlIdle /\ LocInit /\ ProvIdle /\ TcpIdle /\ NavIdle /\ PixInit /\ FcIdle /\ ClockIdle

SpecPix == InitPix /\ [][NextPix]_vars

InitFmt == RsInit /\ CtlIdle /\ LocInit /\ ProvIdle /\ TcpIdle /\ NavIdle /\ DopIdle /\ FcIdle /\ ClockIdle

SpecFmt == InitFmt /\ [][NextFmt]_vars

InitRange == RsInit /\ CtlIdle /\ LocInit /\ ProvIdle /\ TcpIdle /\ NavIdle /\ DopIdle /\ FcIdle /\ ClockIdle

SpecRange == InitRange /\ [][NextRange]_vars

InitLogin == RsInit /\ CtlIdle /\ LocInit /\ ProvIdle /\ TcpIdle /\ NavIdle /\ DopIdle /\ FcIdle /\ ClockIdle

SpecLogin == InitLogin /\ [][NextLogin]_vars

InitParse == RsInit /\ CtlIdle /\ LocInit /\ ProvIdle /\ TcpIdle /\ NavIdle /\ DopIdle /\ FcIdle /\ ClockIdle

SpecParse == InitParse /\ [][NextParse]_vars

InitRay == RsInit /\ CtlIdle /\ LocInit /\ ProvIdle /\ TcpIdle /\ NavIdle /\ DopIdle /\ FcIdle /\ ClockIdle

SpecRay == InitRay /\ [][NextRay]_vars

InitSender == RsInit /\ CtlIdle /\ LocInit /\ ProvIdle /\ TcpIdle /\ NavIdle /\ DopIdle /\ FcIdle /\ ClockIdle

SpecSender == InitSender /\ [][NextSender]_vars

InitRecv == RsInit /\ CtlInit /\ LocInit /\ ProvIdle /\ TcpIdle /\ NavIdle /\ DopIdle /\ FcIdle /\ ClockIdle

SpecRecv == InitRecv /\ [][NextRecv]_vars

InitSeen == RsInit /\ CtlIdle /\ LocInit /\ ProvIdle /\ TcpIdle /\ NavIdle /\ DopIdle /\ FcIdle /\ ClockIdle

SpecSeen == InitSeen /\ [][NextSeen]_vars

InitFrames == RsInit /\ CtlIdle /\ LocInit /\ ProvIdle /\ TcpIdle /\ NavIdle /\ DopIdle /\ FcIdle /\ ClockIdle

SpecFrames == InitFrames /\ [][NextFrames]_vars

InitDetect == RsInit /\ CtlIdle /\ LocInit /\ ProvIdle /\ TcpIdle /\ DetectInit /\ DopIdle /\ FcIdle /\ ClockIdle

SpecDetect == InitDetect /\ [][NextDetect]_vars

InitDiscovery == RsInit /\ CtlIdle /\ LocInit /\ ProvIdle /\ TcpIdle /\ NavIdle /\ DopIdle /\ DiscoveryInit /\ ClockIdle

SpecDiscovery == InitDiscovery /\ [][NextDiscovery]_vars

InitTrack == RsInit /\ CtlIdle /\ LocInit /\ ProvIdle /\ TcpIdle /\ NavIdle /\ TrackInit /\ FcIdle /\ ClockIdle

SpecTrack == InitTrack /\ [][NextTrack]_vars

InitSaveLoad == RsInit /\ CtlIdle /\ LocInit /\ ProvIdle /\ TcpIdle /\ NavIdle /\ DopIdle /\ FcIdle /\ ClockIdle

SpecSaveLoad == InitSaveLoad /\ [][NextSaveLoad]_vars

InitProv == RsInit /\ ProvInit /\ TcpIdle /\ NavIdle /\ DopIdle /\ FcIdle /\ ClockIdle

SpecProv == InitProv /\ [][NextProv]_vars

InitReq == RsInit /\ ProvInit /\ TcpIdle /\ NavIdle /\ DopIdle /\ FcIdle /\ ClockIdle

SpecReq == InitReq /\ [][NextReq]_vars

(***************************************************************************)
(* Response lines as the protocol describes them                          *)
(*   ${mode}{id-hex},{arg},{arg}...  with integer arguments in base 10,   *)
(*   a trailing CR LF and trailing commas tolerated.                      *)
(* These read the text of a line directly and do not use parse_response.  *)
(***************************************************************************)
RECURSIVE StripTrailingCommas(_)
StripTrailingCommas(s) ==
    IF s # <<>> /\ s[Len(s)] = ","
    THEN StripTrailingCommas(SubSeq(s, 1, Len(s) - 1))
    ELSE s

LineParts(l) == Split(StripTrailingCommas(TrimEnd(l)), ",")
LineHead(l) == Head(LineParts(l))
LineFields(l) == Tail(LineParts(l))

\* A base-10 integer: an optional minus sign and one or more digits
IsInteger(f) ==
    LET body == IF f # <<>> /\ Head(f) = "-" THEN Tail(f) ELSE f
    IN  body # <<>> /\ \A i \in 1..Len(body) : IsDigit(body[i])

FieldInt(f) == IF Head(f) = "-" THEN 0 - DecVal(Tail(f)) ELSE DecVal(f)

TableIndices == { RANGE_TABLE[i][1] : i \in 1..Len(RANGE_TABLE) }
TableMeters == { RANGE_TABLE[i][2] : i \in 1..Len(RANGE_TABLE) }
MetersOf(index) == RANGE_TABLE[CHOOSE i \in 1..Len(RANGE_TABLE) : RANGE_TABLE[i][1] = index][2]

StatusHead == <<"$", "N", "6", "9">>
GainHead == <<"$", "N", "6", "3">>
SeaHead == <<"$", "N", "6", "4">>
RainHead == <<"$", "N", "6", "5">>
RangeHead == <<"$", "N", "6", "2">>

\* A well-formed $N status, gain, sea, rain or range response: every
\* argument field is an integer, there are as many as the response needs,
\* and a range response names an index of the range table
WellFormedResponse(l) ==
    /\ l # <<>>
    /\ LineHead(l) \in {StatusHead, GainHead, SeaHead, RainHead, RangeHead}
    /\ \A i \in 1..Len(LineFields(l)) : IsInteger(LineFields(l)[i])
    /\ LineHead(l) \in {StatusHead, RangeHead} => Len(LineFields(l)) >= 1
    /\ LineHead(l) \in {GainHead, SeaHead, RainHead} => Len(LineFields(l)) >= 2
    /\ LineHead(l) = RangeHead => FieldInt(LineFields(l)[1]) \in TableIndices

\* The wire index a range response reports: its first integer argument
IsRangeResponse(l) ==
    /\ l # <<>>
    /\ LineHead(l) = RangeHead
    /\ \E i \in 1..Len(LineFields(l)) : IsInteger(LineFields(l)[i])
ReportedRangeIndex(l) ==
    FieldInt(LineFields(l)[CHOOSE i \in 1..Len(LineFields(l)) :
                             /\ IsInteger(LineFields(l)[i])
                             /\ \A j \in 1..(i - 1) : ~IsInteger(LineFields(l)[j])])

(***************************************************************************)
(* Claims about RadarState::update_from_response                           *)
(***************************************************************************)
\* C1: a line that is not a well-formed $N status/gain/sea/rain/range
\* response makes update_from_response return false and leaves the
\* RadarState as it was.
C1_MalformedLineIgnored ==
    [][(inbox # NoLine /\ ~WellFormedResponse(inbox)) => (ret' = FALSE /\ rs' = rs)]_vars

\* C3: in every reachable RadarState gain.value, sea.value and rain.value
\* are within 0..100.
C3_ControlValuesInRange ==
    /\ rs.gain.value \in 0..100
    /\ rs.sea.value \in 0..100
    /\ rs.rain.value \in 0..100

\* C4: a range response reporting an index of the range table sets range to
\* the meters of that index; a range response with an index that is not in
\* the table, and every other line, leaves range unchanged. Hence every
\* change of range ends in a range of the table.
C4_RangeFollowsTable ==
    [][inbox # NoLine =>
        /\ (IsRangeResponse(inbox) /\ ReportedRangeIndex(inbox) \in TableIndices)
              => (rs'.range = MetersOf(ReportedRangeIndex(inbox)) /\ ret' = TRUE)
        /\ (IsRangeResponse(inbox) /\ ReportedRangeIndex(inbox) \notin TableIndices)
              => rs'.range = rs.range
        /\ ~IsRangeResponse(inbox) => rs'.range = rs.range
        /\ rs'.range # rs.range => rs'.range \in TableMeters]_vars

\* C4 witness: a range response has set range to a range of the table,
\* and a later range response with an unknown index has left it there.
C4_Witness ==
    /\ nresp >= 2
    /\ line # NoLine
    /\ IsRangeResponse(line)
    /\ ReportedRangeIndex(line) \notin TableIndices
    /\ rs.range \in TableMeters
    /\ ret = FALSE

(***************************************************************************)
(* The Raymarine controller's connection states                            *)
(***************************************************************************)
ControllerStates == {"Disconnected", "Listening", "Connected"}

\* The report socket of controller c exists in i, bound to the report port
\* and joined to the report group
ReportSocketReady(c, i) ==
    /\ c.report_socket # NoSocket
    /\ c.report_socket \in DOMAIN i.socks
    /\ i.socks[c.report_socket].port = c.report_port
    /\ i.socks[c.report_socket].joined

\* C7: the controller is always in one of Disconnected, Listening and
\* Connected; only poll and shutdown change the state; a poll leaves
\* Disconnected only for Listening and only with a report socket it has just
\* created, bound and joined; Listening becomes Connected only in a poll that
\* received at least one report datagram; the only way back to Disconnected
\* is shutdown; no control setter changes the state.
C7_ControllerStates ==
    /\ ctl.state \in ControllerStates
    /\ [][ /\ ctl'.state \in ControllerStates
           /\ ctl'.state # ctl.state => last'.op \in {"poll", "shutdown"}
           /\ (ctl.state = "Disconnected" /\ ctl'.state # "Disconnected") =>
                 /\ last'.op = "poll"
                 /\ ctl'.state = "Listening"
                 /\ ctl'.report_socket \notin DOMAIN io.socks
                 /\ ReportSocketReady(ctl', io')
           /\ (ctl.state = "Listening" /\ ctl'.state # "Listening") =>
                 \/ /\ last'.op = "poll"
                    /\ ctl'.state = "Connected"
                    /\ last'.received >= 1
                    /\ Len(io.socks[ctl.report_socket].rxq) >= 1
                 \/ /\ last'.op = "shutdown"
                    /\ ctl'.state = "Disconnected"
           /\ (ctl.state = "Connected" /\ ctl'.state # "Connected") =>
                 /\ last'.op = "shutdown"
                 /\ ctl'.state = "Disconnected"
           /\ last'.op \in Setters => ctl'.state = ctl.state
           /\ (last'.op = "poll" /\ ctl.state = "Listening" /\ ctl'.state = "Listening") =>
                 last'.received = 0 ]_vars

C7_Witness ==
    /\ ctl.state = "Connected"
    /\ last.op = "poll"
    /\ last.received >= 1
    /\ ctl.poll_count >= 4
    /\ Cardinality(DOMAIN io.socks) >= 3

(***************************************************************************)
(* Discovery: identities and model reports                                 *)
(***************************************************************************)
Identity(d) == <<d.brand, d.name>>

\* The identities of the radars in a radar map
KnownIdentities(radars) == {Identity(radars[id].discovery) : id \in DOMAIN radars}

\* The beacons a poll drained, socket by socket
DrainedBeacons(drained) ==
    LET Of(k) == SelectSeq(drained[k], LAMBDA d : d.kind = "beacon")
    IN  Of("furuno") \o Of("navico_br24") \o Of("navico_gen3") \o Of("raymarine")
        \o Of("garmin")

DrainedIdentities(drained) ==
    {Identity(DrainedBeacons(drained)[i].discovery) : i \in 1..Len(DrainedBeacons(drained))}

Occurrences(seq, x) == Cardinality({i \in 1..Len(seq) : seq[i] = x})

\* C8: a poll returns as new exactly the identities whose beacon it drained
\* and which the locator did not know yet, each once even when several of its
\* beacons were drained; over the whole behaviour an identity is returned at
\* most once, and the identities returned so far are exactly the known ones.
C8_NewOncePerIdentity ==
    /\ \A x \in KnownIdentities(loc.radars) : Occurrences(lpoll.returned, x) = 1
    /\ \A i \in 1..Len(lpoll.returned) :
          /\ lpoll.returned[i] \in KnownIdentities(loc.radars)
          /\ Occurrences(lpoll.returned, lpoll.returned[i]) = 1
    /\ lpoll.polled =>
          LET ids == [i \in 1..Len(lpoll.new) |-> Identity(lpoll.new[i])]
          IN  /\ \A i, j \in 1..Len(ids) : ids[i] = ids[j] => i = j
              /\ {ids[i] : i \in 1..Len(ids)} =
                    DrainedIdentities(lpoll.drained) \ KnownIdentities(lpoll.known)

C8_Witness ==
    /\ lpoll.polled
    /\ Len(lpoll.new) = 1
    /\ Len(DrainedBeacons(lpoll.drained)) = 2
    /\ Cardinality(DrainedIdentities(lpoll.drained)) = 1
    /\ lpoll.known # <<>>
    /\ Identity(lpoll.new[1]) \notin KnownIdentities(lpoll.known)

\* The radars whose beacon came from IP x before position j of the Furuno
\* drain: those known before the poll and those drained earlier in it
BeaconedBefore(lp, x, j) ==
    {id \in DOMAIN lp.known : IpOf(lp.known[id].discovery.address) = x}
    \cup {make_radar_id(lp.drained["furuno"][i].discovery) :
             i \in {k \in 1..(j - 1) :
                      /\ lp.drained["furuno"][k].kind = "beacon"
                      /\ IpOf(lp.drained["furuno"][k].discovery.address) = x}}

\* C9: after a poll, every radar whose beacon from IP X preceded a model
\* report from IP X, in an earlier poll or earlier in the same drain, carries
\* the model and the serial of the last such report.
C9_ModelReportUpdatesKnownRadar ==
    lpoll.polled =>
        \A j \in 1..Len(lpoll.drained["furuno"]) :
            LET m == lpoll.drained["furuno"][j]
            IN  (/\ m.kind = "model"
                 /\ \A k \in (j + 1)..Len(lpoll.drained["furuno"]) :
                        lpoll.drained["furuno"][k].kind # "model")
                => \A id \in BeaconedBefore(lpoll, IpOf(m.addr), j) :
                      /\ id \in DOMAIN loc.radars
                      /\ m.model.some => loc.radars[id].discovery.model = m.model
                      /\ m.serial.some => loc.radars[id].discovery.serial_number = m.serial

(***************************************************************************)
(* Control requests and controllers of the provider                        *)
(***************************************************************************)
IsRequest == pres.op = "set_control_v5"

\* C2: a control request for a radar that has a Raymarine controller is
\* not answered with Ok when the controller has no command socket or no
\* frame left the socket.
C2_SuccessMeansSent ==
    (IsRequest /\ pres.radar_id \in DOMAIN prov.raymarine_controllers) =>
        LET c == prov.raymarine_controllers[pres.radar_id]
        IN  (c.command_socket = NoSocket \/ wire = <<>>) => pres.result # "Ok"

\* The index a Raymarine frame can carry is one byte
RaymarineIndexFits(n) == n \div 100 <= 255

\* C5: a range request whose meters are not in the range table of a Furuno
\* radar, or do not fit the range index of a Raymarine radar, is answered
\* with InvalidValue, nothing is handed to the controller and no frame
\* leaves the socket.
C5_UnsupportedRangeRejected ==
    (IsRequest /\ pres.control_id = "range" /\ as_u64(pres.value).some) =>
        LET n == as_u64(pres.value).val
            unsupported ==
                \/ pres.radar_id \in DOMAIN prov.furuno_controllers /\ n \notin TableMeters
                \/ /\ pres.radar_id \in DOMAIN prov.raymarine_controllers
                   /\ ~RaymarineIndexFits(n)
        IN  unsupported =>
                /\ pres.result = "InvalidValue"
                /\ pres.calls = <<>>
                /\ wire = <<>>

\* The number a gain, sea or rain request asks for
RequestedLevel(v) ==
    IF v.kind = "number" THEN Some(v.n)
    ELSE IF v.kind = "object" THEN v.value
    ELSE None

\* C6: a gain, sea or rain request for a known radar that asks for a
\* number in 0..100 hands that number to the controller, and one that asks
\* for a number outside 0..100 is answered with InvalidValue.
C6_LevelWithinPercent ==
    (/\ IsRequest
     /\ pres.control_id \in {"gain", "sea", "rain"}
     /\ pres.result # "RadarNotFound"
     /\ RequestedLevel(pres.value).some) =>
        LET n == RequestedLevel(pres.value).val
        IN  IF n \in 0..100
            THEN pres.result = "Ok" =>
                    /\ pres.calls # <<>>
                    /\ \A i \in 1..Len(pres.calls) : pres.calls[i].value = n
            ELSE pres.result = "InvalidValue"

\* The controller map of a brand
ControllersOf(p, brand) ==
    CASE brand = "Furuno" -> p.furuno_controllers
      [] brand = "Navico" -> p.navico_controllers
      [] brand = "Raymarine" -> p.raymarine_controllers
      [] brand = "Garmin" -> p.garmin_controllers

\* How often a controller was polled
PollsOf(c, brand) == IF brand = "Raymarine" THEN c.poll_count ELSE c.polls

\* A controller is a controller for a radar when it carries the radar's id
\* and talks to the radar's IP (Navico controllers talk to a multicast group)
ControllerIsFor(c, d) ==
    /\ c.radar_id = RadarStateId(d)
    /\ d.brand \in {"Furuno", "Garmin"} => c.ip = IpOf(d.address)
    /\ d.brand = "Raymarine" => c.command_addr = IpOf(d.address)

\* What a poll may change in a controller: its poll count, its sockets and
\* its state
Built(c, brand) ==
    IF brand = "Raymarine"
    THEN [c EXCEPT !.poll_count = 0, !.command_socket = NoSocket,
                   !.report_socket = NoSocket, !.state = "Disconnected"]
    ELSE [c EXCEPT !.polls = 0]

IsProviderPoll == prov'.poll_count = prov.poll_count + 1

\* C10: after the provider poll in which a radar is first discovered, the
\* controller map of its brand holds exactly one controller for it, that
\* controller was polled in this poll, and every controller that existed
\* before the poll is still the controller that was built.
C10_NewRadarGetsController ==
    [][IsProviderPoll =>
        /\ \A k \in DOMAIN loc'.radars \ DOMAIN loc.radars :
              LET d == loc'.radars[k].discovery
                  before == ControllersOf(prov, d.brand)
                  after == ControllersOf(prov', d.brand)
                  own == {id \in DOMAIN after : ControllerIsFor(after[id], d)}
              IN  /\ Cardinality(own) = 1
                  /\ \A id \in own :
                        PollsOf(after[id], d.brand)
                        = (IF id \in DOMAIN before
                           THEN PollsOf(before[id], d.brand) ELSE 0) + 1
        /\ \A brand \in Brands : \A id \in DOMAIN ControllersOf(prov, brand) :
              /\ id \in DOMAIN ControllersOf(prov', brand)
              /\ Built(ControllersOf(prov', brand)[id], brand)
                 = Built(ControllersOf(prov, brand)[id], brand)
    ]_vars

(***************************************************************************)
(* The Furuno announce of the locator                                      *)
(***************************************************************************)
\* The packets of one announce, in the order they are sent
AnnounceBurst == <<"REQUEST_BEACON_PACKET", "REQUEST_MODEL_PACKET", "ANNOUNCE_PACKET">>

\* What leaves the Furuno socket when the sends answer oks: every packet
\* whose own send succeeded, to the broadcast address on port 10010
BurstLeft(oks) ==
    LET idx == SelectSeq(<<1, 2, 3>>, LAMBDA k : oks[k])
    IN  [i \in 1..Len(idx) |->
            [packet |-> AnnounceBurst[idx[i]], socket |-> "furuno",
             addr |-> <<"1", "7", "2", ".", "3", "1", ".", "2", "5", "5", ".", "2", "5", "5">>,
             port |-> 10010]]

\* C11: a locator poll sends the three announce packets, in order, through
\* the Furuno socket to the broadcast address on port 10010 when it is a
\* 20th poll and the Furuno socket exists, each packet leaving whenever its
\* own send succeeds; every other poll sends nothing.
C11_AnnounceEvery20thPoll ==
    lpoll.polled =>
        wire = IF loc.poll_count % 20 = 0 /\ loc.sockets["furuno"]
               THEN BurstLeft(lpoll.oks) ELSE <<>>

\* The 20th poll whose model request failed still sent the announce packet
C11_Witness ==
    /\ lpoll.polled
    /\ loc.poll_count = 20
    /\ loc.sockets["furuno"]
    /\ lpoll.oks = [k \in 1..3 |-> k # 2]
    /\ Len(wire) = 2
    /\ wire[2].packet = "ANNOUNCE_PACKET"

\* The LF-terminated lines of a byte stream, trailing CR removed; bytes after
\* the last LF are no line yet
RECURSIVE LinesOf(_)
LinesOf(bytes) ==
    LET pos == Find(bytes, LF)
    IN  IF pos > Len(bytes) THEN <<>>
        ELSE <<TrimEndCr(SubSeq(bytes, 1, pos - 1))>> \o LinesOf(SubSeq(bytes, pos + 1, Len(bytes)))

IsPrefix(a, b) == Len(a) <= Len(b) /\ SubSeq(b, 1, Len(a)) = a

ReturnedLinesArePrefix == IsPrefix(tcp.got, LinesOf(tcp.sent))

\* C12: the lines tcp_recv_line has returned are the first lines the peer
\* sent, each once and in order, and a call that returns no line when every
\* byte the peer sent was read has left no complete line behind, also after
\* the peer closed the connection
C12_LinesLossless ==
    /\ ReturnedLinesArePrefix
    /\ (tcp.called /\ ~tcp.ret.some /\ tcp.pending = <<>>) => tcp.got = LinesOf(tcp.sent)


SocketLoopFailed == nlast.op = "error" \/ (nlast.op = "timer" /\ ~nlast.ok)

\* C13, without the rate of the retries: run returns only after shutdown was
\* requested, an error inside socket_loop leaves run running with the report
\* socket dropped, and an open that succeeds gives it a report socket again
ReconnectNotSurfaced ==
    /\ nav.pc = "returned" => nav.shutdown
    /\ SocketLoopFailed => nav.pc = "running" /\ ~nav.report_socket
    /\ (nlast.op = "open" /\ nlast.ok) => nav.pc = "running" /\ nav.report_socket

\* C13: a transport failure inside socket_loop is not surfaced: run drops the
\* report socket and opens it again, one attempt a second while opening
\* fails, and returns only when shutdown is requested
C13_ReconnectOncePerSecond ==
    /\ ReconnectNotSurfaced
    /\ (nlast.op = "open" /\ nlast.gap >= 0) => nlast.gap = 1000

\* C14: with a command sender, every expiry of the report-request deadline
\* sends the three request packets in order and moves the deadline 5 s
\* forward, and consecutive bursts are 5 s apart
C14_RequestsEvery5s ==
    [][(nlast'.op = "timer" /\ nav.command_sender) =>
          /\ nlast'.sent = <<<<4, 194>>, <<1, 194>>, <<160, 193>>>>
          /\ nav'.report_request_timeout = nav.report_request_timeout + 5000
          /\ (nlast'.gap >= 0 => nlast'.gap = 5000)]_vars

IsReport03(r) == r.len >= 2 /\ r.tag = 196 /\ r.id = 3

\* C15: a report 0x03 that names a concrete model sets the receiver's model
\* to it, and no report sets a concrete model back to Unknown
C15_ModelPromotionOneWay ==
    [][/\ nav.model # "Unknown" => nav'.model # "Unknown"
       /\ (nlast'.op = "report" /\ IsReport03(nlast'.report) /\ nlast'.report.ok
             /\ nlast'.report.model # "Unknown") => nav'.model = nlast'.report.model]_vars

C15_Witness ==
    /\ nav.model = "HALO"
    /\ nlast.op = "report" /\ IsReport03(nlast.report) /\ nlast.report.model = "Unknown"
    /\ 5 \in nav.reported_unknown

IsUnknownIdReport(r) == r.len >= 2 /\ r.tag = 196 /\ r.id \notin {1, 2, 3, 4, 6, 8}

\* C16: the first report with an unknown id logs one line, every later report
\* with that id logs none, and none of them changes a control value,
\* whatever was received before
C16_UnknownIdLoggedOnce ==
    [][(nlast'.op = "report" /\ IsUnknownIdReport(nlast'.report)) =>
          /\ Len(nlast'.logs) = IF nlast'.report.id \in nav.seen THEN 0 ELSE 1
          /\ nav'.controls = nav.controls]_vars


Undiscovered(l, radar_id) ==
    \A k \in DOMAIN l.radars : RadarStateId(l.radars[k].discovery) # radar_id

\* C17: set_control_v5 for a radar id that no discovered radar has answers
\* RadarNotFound for every control id and value, sends nothing, calls no
\* controller and leaves the provider, its locator and its sockets unchanged
C17_UnknownRadarNotFound ==
    [][(pres'.op = "set_control_v5" /\ Undiscovered(loc, pres'.radar_id)) =>
          /\ pres'.result = "RadarNotFound"
          /\ wire' = <<>> /\ pres'.announce = <<>> /\ pres'.calls = <<>>
          /\ prov' = prov /\ loc' = loc /\ io' = io /\ net' = net]_vars

C17_Witness ==
    /\ pres.op = "set_control_v5" /\ pres.result = "RadarNotFound"
    /\ pres.radar_id \in DOMAIN loc.radars /\ Undiscovered(loc, pres.radar_id)
    /\ pres.control_id = "bearingAlignment"
    /\ prov.raymarine_controllers # <<>>

OutOfDomain(control_id, value) ==
    /\ value.kind = "number"
    /\ \/ control_id = "bearingAlignment" /\ (value.n < -180 \/ value.n > 180)
       \/ control_id = "antennaHeight" /\ (value.n < 0 \/ value.n > 100)

\* C18: for a radar with a Furuno controller, bearingAlignment outside
\* -180..180 and antennaHeight outside 0..100 are answered InvalidValue, no
\* controller is called and the installation config, in memory and as saved,
\* stays as it was
C18_InstallationDomainChecked ==
    [][(/\ pres'.op = "set_control_v5"
        /\ pres'.radar_id \in DOMAIN prov.furuno_controllers
        /\ OutOfDomain(pres'.control_id, pres'.value)) =>
          /\ pres'.result = "InvalidValue"
          /\ pres'.calls = <<>>
          /\ prov'.config = prov.config /\ prov'.stored = prov.stored]_vars

\* C18, antennaHeight alone
AntennaHeightChecked ==
    [][(/\ pres'.op = "set_control_v5"
        /\ pres'.radar_id \in DOMAIN prov.furuno_controllers
        /\ pres'.control_id = "antennaHeight"
        /\ OutOfDomain(pres'.control_id, pres'.value)) =>
          /\ pres'.result = "InvalidValue"
          /\ pres'.calls = <<>>
          /\ prov' = prov]_vars


ExactlyApproaching(t, a, r) == a > r /\ 100 * a > 85 * t
ExactlyReceding(t, a, r) == r > a /\ 100 * r > 85 * t

C20_DopplerFallbackExact ==
    /\ (dop.called /\ dop.self = "Approaching") =>
          dop.result = IF 100 * dop.approaching_pix < 80 * (dop.total_pix - dop.receding_pix)
                       THEN "Any" ELSE "Approaching"
    /\ (dop.called /\ dop.self = "Receding") =>
          dop.result = IF 100 * dop.receding_pix < 80 * (dop.total_pix - dop.approaching_pix)
                       THEN "Any" ELSE "Receding"


\* The bit table of the DopplerState documentation: bit0 is the target bit,
\* bit2 approaching, bit3 receding
BitTable(self, is_target, is_approaching, is_receding) ==
    CASE self = "Any" -> is_target
      [] self = "NoDoppler" -> is_target /\ ~is_approaching /\ ~is_receding
      [] self = "Approaching" -> is_target /\ is_approaching /\ ~is_receding
      [] self = "Receding" -> is_target /\ ~is_approaching /\ is_receding
      [] self = "AnyDoppler" -> is_target /\ (is_approaching \/ is_receding)
      [] self = "NotReceding" -> is_target /\ ~is_receding
      [] self = "NotApproaching" -> is_target /\ ~is_approaching

TableStates == DopplerStates \ {"AnyPlus"}

\* C21: for each of the sixteen flag combinations and each state of the bit
\* table, matches_pixel answers what the table says: every state needs the
\* target bit, Approaching needs approaching set and receding clear, Receding
\* the reverse, AnyDoppler at least one Doppler bit, NoDoppler none,
\* NotReceding receding clear and NotApproaching approaching clear
C21_MatchesBitTable ==
    (dop.called /\ dop.self \in TableStates) =>
        dop.result = BitTable(dop.self, dop.is_target, dop.is_approaching, dop.is_receding)

\* The rows of the table that matches_pixel does reproduce
C21_PlainRowsMatch ==
    (dop.called /\ dop.self \in {"Any", "NoDoppler", "NotReceding", "NotApproaching"}) =>
        dop.result = BitTable(dop.self, dop.is_target, dop.is_approaching, dop.is_receding)


FormatterCalled == fc.op \in {"status", "range", "gain", "sea", "rain"}

\* C22 as stated: the parser of a command, given the frame its formatter
\* produced, returns the value that was formatted
C22_ParseOfFormatted == FormatterCalled => fc.parsed = Some(fc.arg)

\* C22: the parser of a command returns the formatted value from the radar's
\* response to the formatted frame, which is that frame in mode N, for status,
\* range, gain, sea and rain over the documented domain; the $S frame itself
\* is no response and parses to nothing
C22_ParseOfEchoedFrame ==
    FormatterCalled => (fc.echoed = Some(fc.arg) /\ fc.parsed = None)

C22_Witness ==
    /\ fc.op = "gain" /\ fc.arg = [auto |-> FALSE, value |-> 50]
    /\ fc.frame = <<"$", "S", "6", "3", ",", "0", ",", "5", "0", ",", "0", ",", "8", "0", ",", "0", CR, LF>>
    /\ fc.echoed = Some([auto |-> FALSE, value |-> 50])


IsLogin == fc.op \in {"parse_login_response", "login_to_radar"} /\ (fc.op = "login_to_radar" => (~fc.replay /\ fc.connect_ok))
HasHeader(data) == Len(data) >= 8 /\ SubSeq(data, 1, 8) = LOGIN_RESPONSE_HEADER
PortOffset(data) == data[9] * 256 + data[10]

\* C24: a login response of at least 12 bytes that starts with the fixed
\* header gives the port 10000 + P, P being bytes 8-9 read big-endian, for
\* every P; a shorter response or one with another header gives no port
C24_LoginPort ==
    IsLogin =>
        IF Len(fc.data) >= 12 /\ HasHeader(fc.data)
        THEN ~fc.panic /\ fc.ret = Some(10000 + PortOffset(fc.data))
        ELSE ~fc.panic /\ fc.ret = None

\* The same for the offsets whose port fits 16 bits
C24_LoginPortThatFits ==
    (IsLogin /\ (Len(fc.data) >= 12 /\ HasHeader(fc.data) => PortOffset(fc.data) <= U16_MAX - 10000)) =>
        IF Len(fc.data) >= 12 /\ HasHeader(fc.data)
        THEN ~fc.panic /\ fc.ret = Some(10000 + PortOffset(fc.data))
        ELSE ~fc.panic /\ fc.ret = None


\* A $N69 response whose argument fields are all integers, and its first
\* argument
IsStatusResponse(l) == WellFormedResponse(l) /\ LineHead(l) = StatusHead
StatusArg(l) == FieldInt(LineFields(l)[1])

\* C25: a status response sets power to Standby when its first argument is 1
\* and to Transmit when it is 2, and a status response with any other first
\* argument is not recorded as Standby or as Transmit
C25_StatusMapping ==
    [][(inbox # NoLine /\ IsStatusResponse(inbox)) =>
          /\ StatusArg(inbox) = 1 => rs'.power = "Standby"
          /\ StatusArg(inbox) = 2 => rs'.power = "Transmit"
          /\ StatusArg(inbox) \notin {1, 2} =>
                (rs'.power = rs.power \/ rs'.power \notin {"Standby", "Transmit"})]_vars

\* The two documented values are recorded as the claim says
C25_DocumentedValues ==
    [][(inbox # NoLine /\ IsStatusResponse(inbox)) =>
          /\ StatusArg(inbox) = 1 => rs'.power = "Standby"
          /\ StatusArg(inbox) = 2 => rs'.power = "Transmit"]_vars


\* C26: a well-formed frame parses to the same mode, command id and
\* arguments with any number of commas after its last argument and with its
\* terminator present, cut to one character or absent; a frame that has an
\* argument also does with the commas after its terminator
C26_TolerantParsing ==
    (fc.op = "parse_response" /\ (~fc.after \/ fc.nargs > 0)) =>
        (fc.expected.some /\ fc.parsed = fc.expected)

C26_Witness ==
    /\ fc.op = "parse_response" /\ ~fc.after /\ fc.commas = 2 /\ fc.term = <<>>
    /\ fc.arrived = <<"$", "N", "6", "9", ",", "2", ",", "-", "7", ",", ",">>
    /\ fc.parsed = [some |-> TRUE, mode |-> "New", cmd_id |-> 105, args |-> <<2, -7>>]


OpcodePrefix(variant) == IF variant = "Quantum" THEN <<40, 0>> ELSE <<1, 0>>
HasPrefix(frame, variant) == Len(frame) >= 4 /\ SubSeq(frame, 3, 4) = OpcodePrefix(variant)

\* C27: every command frame for a Quantum radar is a 2-byte opcode followed
\* by 0x28 0x00 and every command frame for an RD radar a 2-byte opcode
\* followed by 0x01 0x00, whatever the control and its value, from the core
\* controller and from the command modules of the server
C27_OpcodePrefix ==
    fc.op \in {"core", "server"} =>
        \A i \in 1..Len(fc.frames) : HasPrefix(fc.frames[i], fc.variant)

\* The frames of the core controller, and of the server for an RD radar
C27_CoreAndRdPrefix ==
    (fc.op = "core" \/ (fc.op = "server" /\ fc.variant = "RD")) =>
        \A i \in 1..Len(fc.frames) : HasPrefix(fc.frames[i], fc.variant)


\* The control types the sender has a command for, their command ids, and
\* the number a request asks to be set
AcceptedTypes == {"Status", "Gain", "Sea", "Rain", "Range", "ScanSpeed", "AntennaHeight"} \cup SectorTypes
CommandIdOf(id) ==
    CASE id = "Status" -> CommandId_Status
      [] id = "Gain" -> CommandId_Gain
      [] id = "Sea" -> CommandId_Sea
      [] id = "Rain" -> CommandId_Rain
      [] id = "Range" -> CommandId_Range
      [] id = "ScanSpeed" -> CommandId_AntennaRevolution
      [] id = "AntennaHeight" -> CommandId_AntennaHeight
      [] id \in SectorTypes -> CommandId_BlindSector
RequestedNumber ==
    CASE fc.id = "Status" -> IF fc.is_transmit THEN 2 ELSE 1
      [] fc.id = "Range" ->
            IF FieldInt(fc.value) < Len(fc.ranges) THEN FieldInt(fc.value)
            ELSE Cardinality({i \in 1..Len(fc.ranges) : fc.ranges[i] < FieldInt(fc.value)})
      [] OTHER -> FieldInt(fc.value)
CarriesRequest(frame) ==
    LET r == parse_response(frame)
    IN  /\ r.some /\ r.mode = "Set" /\ r.cmd_id = CommandIdOf(fc.id)
        /\ \E i \in 1..Len(r.args) : r.args[i] = RequestedNumber

\* C28: a request for a control type the sender accepts makes it write a
\* Set frame with that control's command id and the requested value among
\* its arguments; a request for any other control type is answered
\* CannotSetControlType and nothing is written
C28_ControlToSetFrame ==
    fc.op = "furuno_set_control" =>
        /\ (fc.id \in AcceptedTypes /\ IsInteger(fc.value) /\ fc.write_ok) =>
              (fc.written # <<>> /\ CarriesRequest(fc.written[1]))
        /\ fc.id \notin AcceptedTypes =>
              (fc.result = "CannotSetControlType" /\ fc.written = <<>>)

\* The controls formatted by mayara-core and the sector angles do carry the
\* value, and no unsupported control writes anything
C28_FormattedControls ==
    fc.op = "furuno_set_control" =>
        /\ (fc.id \in AcceptedTypes \ {"ScanSpeed", "AntennaHeight"} /\ IsInteger(fc.value) /\ fc.write_ok) =>
              (fc.written # <<>> /\ CarriesRequest(fc.written[1]))
        /\ fc.id \notin AcceptedTypes => fc.written = <<>>


PolledWhileOpen ==
    /\ ctl.state \in {"Listening", "Connected"}
    /\ ctl'.poll_count = ctl.poll_count + 1
PendingReports == io.socks[ctl.report_socket].rxq

RefreshedInPoll ==
    {make_radar_id(DrainedBeacons(lpoll.drained)[i].discovery) :
        i \in 1..Len(DrainedBeacons(lpoll.drained))} \cap DOMAIN lpoll.known

\* C30: a poll that received a beacon of a radar already known leaves that
\* radar's last_seen_ms at the time of that poll, and no radar's last_seen_ms
\* ever decreases
C30_LastSeenRefreshed ==
    /\ [](lpoll.polled =>
            \A id \in RefreshedInPoll : loc.radars[id].last_seen_ms = clock.polled_at)
    /\ [][\A id \in DOMAIN loc.radars :
             loc'.radars[id].last_seen_ms >= loc.radars[id].last_seen_ms]_vars

\* What the code does: last_seen_ms is the locator's current_time_ms, which
\* stays at the 0 of RadarLocator::new
C30_LastSeenIsLocatorTime ==
    /\ loc.current_time_ms = 0
    /\ \A id \in DOMAIN loc.radars : loc.radars[id].last_seen_ms = loc.current_time_ms


\* C31: a provider poll returns 0 only when it discovered no radar and no
\* controller reported activity, and a positive number otherwise
C31_PollCountsWork ==
    pres.op = "poll" =>
        /\ pres.returned >= 0
        /\ (pres.returned = 0) <=> (pres.discovered = 0 /\ ~pres.activity)

\* What the code does: every poll returns 0
C31_PollReturnsZero == pres.op = "poll" => pres.returned = 0


\* C32: a control request leaves every registered Furuno controller
\* registered and as it was, whatever the control id, the value and the answer
C32_ControllerStaysRegistered ==
    [][(pres.op # "set_control_v5" /\ pres'.op = "set_control_v5") =>
          \A id \in DOMAIN prov.furuno_controllers :
             /\ id \in DOMAIN prov'.furuno_controllers
             /\ prov'.furuno_controllers[id] = prov.furuno_controllers[id]]_vars

\* A request that is answered Ok leaves the controllers registered
C32_OkKeepsController ==
    [][(pres.op # "set_control_v5" /\ pres'.op = "set_control_v5" /\ pres'.result = "Ok") =>
          prov'.furuno_controllers = prov.furuno_controllers]_vars


\* C33: for each variant and every range index the frame of set_range
\* differs from the frame of set_power(true) and from that of set_power(false)
C33_RangeIsNotPower ==
    fc.op = "frames" => (fc.range # fc.transmit /\ fc.range # fc.standby)

\* The Quantum frames differ for every range index, the RD frames for every
\* range index from 2 on
C33_QuantumAndHigherIndexes ==
    (fc.op = "frames" /\ (fc.variant = "Quantum" \/ fc.range_index >= 2)) =>
        (fc.range # fc.transmit /\ fc.range # fc.standby)


\* C34: a controller in Listening or Connected holds an open report socket
\* and an open command socket
C34_BothSocketsOpen ==
    ctl.state \in {"Listening", "Connected"} =>
        /\ ctl.report_socket # NoSocket /\ IsOpen(io, ctl.report_socket)
        /\ ctl.command_socket # NoSocket /\ IsOpen(io, ctl.command_socket)

\* The report socket is open in Listening and Connected
C34_ReportSocketOpen ==
    ctl.state \in {"Listening", "Connected"} =>
        (ctl.report_socket # NoSocket /\ IsOpen(io, ctl.report_socket))


\* C35: every socket the controller created and that is still open is one
\* of its current sockets, so it never owns more than two open sockets
C35_NoSocketLeak ==
    /\ DOMAIN io.socks \subseteq ({ctl.command_socket, ctl.report_socket} \ {NoSocket})
    /\ Cardinality(DOMAIN io.socks) <= 2

\* Every open socket that is not a current socket of the controller is an
\* earlier command socket (bound to port 0); report sockets never leak
C35_ReportSocketNeverLeaks ==
    \A h \in DOMAIN io.socks :
        (h # ctl.command_socket /\ h # ctl.report_socket) => io.socks[h].port = 0


\* Range detection has run and is over
DetectionEnded == nav.ranges_known /\ ~nav.range_detection

\* C36: once range detection has ended the radar is not in a standby that
\* the receiver caused for the detection: the transmit command has been sent
C36_TransmitRestored == DetectionEnded => ~nav.standby_by_detection

\* While no send fails, the end of range detection finds the radar
\* transmitting again
C36_RestoredWhileSendsSucceed ==
    (DetectionEnded /\ ~nav.send_failed) => ~nav.standby_by_detection


\* The last beacon was for a radar not yet registered and its login failed
LoginFailed == fc.key # "" /\ ~fc.known /\ fc.login /\ fc.result = "Err"

\* C37: after a beacon whose login fails no receiver was started and the
\* radar is not registered; a beacon for a registered radar performs no login
\* and starts no receiver; and the next beacon for a radar whose login just
\* failed performs a login again
C37_FailedLoginRetryable ==
    /\ [](LoginFailed => (fc.started = <<>> /\ fc.key \notin fc.radars))
    /\ [](fc.known => (~fc.login /\ fc.started = <<>> /\ fc.result = "Ok"))
    /\ [][(LoginFailed /\ fc'.key = fc.key) => (~fc'.known /\ fc'.login)]_vars

\* A radar's login failed and the next beacon of the same radar logged in and
\* started its receivers
C37_Witness ==
    /\ fc.op = "discovery" /\ fc.key \in fc.failed /\ ~fc.known
    /\ fc.login /\ fc.result = "Ok" /\ fc.running[fc.key] = 1
    /\ fc.started = <<"data", "reports">>


\* C38: from the default state every refresh leaves the target in Any,
\* Approaching or Receding, and no refresh takes it from Approaching to
\* Receding or from Receding to Approaching
C38_DirectionChangesThroughAny ==
    /\ dop.self \in {"Any", "Approaching", "Receding"}
    /\ dop.result \in {"Any", "Approaching", "Receding"}
    /\ ~(dop.self = "Approaching" /\ dop.result = "Receding")
    /\ ~(dop.self = "Receding" /\ dop.result = "Approaching")

\* A receding target whose refresh returned Any, with counts that would
\* classify a target in Any as Approaching
C38_Witness ==
    /\ dop.called /\ ~dop.panic /\ dop.self = "Receding" /\ dop.result = "Any"
    /\ dop.approaching_pix <= dop.total_pix /\ dop.receding_pix <= dop.total_pix
    /\ refresh("Any", dop.total_pix, dop.approaching_pix, dop.receding_pix, FALSE) = Returned("Approaching")

\* C39: every call of transition returns a state: none panics, whatever the
\* three counts are
C39_TransitionTotal == dop.called => ~dop.panic

\* Calls whose counts do not exceed total_pix return a state
C39_TotalWithinContour ==
    (dop.called /\ dop.approaching_pix <= dop.total_pix /\ dop.receding_pix <= dop.total_pix) => ~dop.panic


\* A height that set_control_v5 accepted and wrote to the stored config
HeightPersisted == fc.op = "save_load" /\ fc.result = "Ok" /\ fc.persisted

\* C40: a height that set_control_v5 accepted and persisted is the height
\* that loading the persisted document gives
C40_HeightRoundTrip == HeightPersisted => fc.loaded = Some(fc.meters)

\* Heights of 3 to 100 meters are read back as written
C40_RoundTripAboveCategories == (HeightPersisted /\ fc.meters >= 3) => fc.loaded = Some(fc.meters)

\* Heights 0, 1 and 2 are read back as 2, 5 and 15 meters
C40_CategoriesMigrated ==
    (HeightPersisted /\ fc.meters <= 2) => fc.loaded = Some(CASE fc.meters = 0 -> 2 [] fc.meters = 1 -> 5 [] OTHER -> 15)

=============================================================================
